---- MODULE Spec2Model ----
(***************************************************************************)
(* Verification model of the golang-practice repository.  The repository   *)
(* is a set of independent snippets; each snippet is modelled by its own   *)
(* group of variables and its own specification:                           *)
(*   SpecSync     - Counter / WaitGroup test and Countdown (sync_test.go)   *)
(*   SpecRacer    - Racer / ping (select/racer.go), with a discrete clock   *)
(*   SpecContext  - Server handler and SpyStore.Fetch (context/notes.md)    *)
(*   SpecChat     - llm.Client.CreateChat                                   *)
(*   SpecAgent    - agent.New, its options, and Agent.Run                   *)
(*   SpecRegistry - tools.Registry.Register and jsonschema.GenerateSchema   *)
(*   SpecSchema   - jsonschema.GenerateSchema, call by call                  *)
(*   SpecDict     - Dictionary: Add, Delete, Search (maps/notes_maps.md)     *)
(*   SpecWorkers  - workers sending results to a collecting main routine     *)
(*   SpecHello    - Mellow(name, language) and greetingPrefix                *)
(*   SpecSum      - Sum, SumAll and SumAllTails (slice_arr/sum.go)           *)
(***************************************************************************)
EXTENDS Integers, Sequences, FiniteSets, TLC

(***************************************************************************)
(* Bounds                                                                  *)
(***************************************************************************)
\* number of goroutines of TestCounter (wantedCount is 1000 in the test)
WantedCount == 3
\* the clock of the racer runs from 0 to MaxTime; timeouts are 1..MaxTime and
\* response latencies 1..MaxTime+1 (the last one: no response within the run)
MaxTime == 2
\* the longest SpyStore.response, in characters
MaxResponse == 2
\* how many times CreateChat is called on the client
MaxCalls == 2
\* the longest list of options given to agent.New
MaxOpts == 2
\* how many times Agent.Run is called
MaxRuns == 2
\* the deepest stack of GenerateSchema calls that is followed
MaxDepth == 3
\* how many Add and Delete calls are made on the Dictionary
MaxOps == 3
\* the longest list of urls given to the workers
MaxUrls == 2
\* the longest name, beside the names of the tests, given to Mellow
MaxNameLen == 2
\* the longest slice given to SumAll, and the most slices in one call
MaxLen == 2
MaxSlices == 2

(***************************************************************************)
(* Program constants                                                       *)
(***************************************************************************)
countdownStart == 3
StatusOK == 200
DefaultMaxRetries == 1
\* the width of int in bits: 64 in the build, scaled down here
IntBits == 4
finalWord == "Go!"
write == "write"
sleep == "sleep"

VARIABLES
    \* ---- sync: Counter, WaitGroup, TestCounter ----
    value,      \* Counter.value
    mu,         \* Counter.mu: 0 when free, else the goroutine holding it
    wg,         \* the WaitGroup's counter
    tpc,        \* TestCounter's position
    spawned,    \* goroutines started so far by the for-range loop
    gpc,        \* position of each goroutine in func(){ counter.Inc(); wg.Done() }
    greg,       \* each goroutine's register for value++ (load, add, store)
    got,        \* what assertCounter read with Value()
    \* ---- sync: Countdown with SpyCountdownOperations ----
    cpc,        \* Countdown's position
    ci,         \* Countdown's loop variable i
    Calls,      \* SpyCountdownOperations.Calls
    \* ---- select: Racer and ping ----
    ra,         \* Racer's argument a
    rb,         \* Racer's argument b
    timout,     \* Racer's argument timout, in clock ticks
    delay,      \* environment: how long each URL takes to answer a GET
    now,        \* the clock
    rpc,        \* Racer's position
    pings,      \* the goroutines started by ping: [url, st, start]
    timerAt,    \* when the time.After channel becomes ready (-1: not created)
    timerFired, \* the time.After channel holds its value
    winner,     \* Racer's first result
    errror,     \* Racer's second result: "nil" or the timeout error
    \* ---- context: Server and SpyStore.Fetch ----
    response,   \* SpyStore.response, a sequence of characters
    ctxDone,    \* the request's context is cancelled (ctx.Done() is closed)
    cancelPhase, \* history: where the worker was when the context was cancelled
    hpc,        \* position of the handler (and of Fetch, which it calls)
    wpc,        \* position of Fetch's worker goroutine
    wi,         \* the worker's index into response
    result,     \* the worker's local result
    data,       \* the buffer of Fetch's channel data (capacity 1)
    fres,       \* Fetch's first return value
    ferr,       \* Fetch's second return value
    written,    \* the Write calls received by the ResponseWriter
    \* ---- llm: Client.CreateChat ----
    kpc,        \* CreateChat's position
    kcalls,     \* calls of CreateChat so far
    kfail,      \* which of Marshal, NewRequestWithContext, Do failed in this call
    kstatus,    \* resp.StatusCode (0: no response)
    kdecoded,   \* outcome of Decode in this call: "unset", "ok", "fail"
    ksent,      \* HTTP requests issued by this call
    kreq,       \* the req argument of this call
    klog,       \* the HTTP requests issued by all calls, as the server saw them
    kbody,      \* resp.Body: "none", "open", "closed"
    kresp,      \* CreateChat's first result: "nil" or "chatResp"
    kerr,       \* CreateChat's second result
    \* ---- agent: New, options, Run ----
    apc,        \* position of New / Run
    opts,       \* the options New has not applied yet
    applied,    \* history: the options New has applied, in the order applied
    SystemPrompt, \* Agent.SystemPrompt
    MaxRetries, \* Agent.MaxRetries
    History,    \* Agent.History
    runs,       \* calls of Run that returned
    histBefore, \* history: Agent.History when Run was last called
    usrMsg,     \* history: the argument of the last Run
    sends,      \* history: the message lists the agent handed to the client
    \* ---- tools: Registry ----
    tools,      \* Registry.tools: a map from names to Tool
    regpc,      \* "ready", or "panicked" once a Register call panicked
    regCall,    \* history: the arguments of the last Register call and the
                \* tools map it found
    regErr      \* the error the last Register call returned

VARIABLES
    \* ---- jsonschema: GenerateSchema, call by call ----
    schemaInput, \* the reflect.Type given to the outermost call
    callStack,  \* the struct-case calls in progress: [t, i, name, properties, required]
    callArg,    \* the argument of a call about to be entered
    callResult, \* the value the last completed call returned
    genpc,      \* "running", "returned", "panicked"
    \* ---- maps: Dictionary ----
    dictionary, \* the Dictionary's entries (of the runtime map it points to)
    dictNil,    \* the Dictionary is a nil map
    dictpc,     \* "ready", or "panicked" after a write to a nil map
    dictLog,    \* history: the Add and Delete calls made, oldest first
    searched,   \* the word of the last Search ("" before the first)
    searchedAt, \* history: how many Add and Delete calls preceded that Search
    definition, \* Search's first result
    searchErr,  \* Search's second result
    \* ---- concurrency: workers and a collecting main routine ----
    urls,       \* the list of urls
    wc,         \* environment: what wc(url) answers for each url
    mpc,        \* position of the main routine
    started,    \* goroutines started so far by the first loop
    wkpc,       \* position of each worker goroutine
    sent,       \* history: how many results each worker has sent
    received,   \* history: how many results the main routine has received
    collected,  \* the loop variable i of the collecting loop
    lastResult, \* the variable r: the result last received
    results,    \* the results map
    writing,    \* the routines with a write to the map in progress
    \* ---- helloWorld: Mellow ----
    helloName,  \* Mellow's argument name, a sequence of characters
    helloLanguage, \* Mellow's argument language
    hellopc,    \* "call" before the call, "returned" after
    greeting,   \* what Mellow returned
    \* ---- slice_arr: SumAll ----
    numbersTosum, \* SumAll's variadic argument: a sequence of slices
    sums,       \* SumAll's local sums (the nil slice is the empty sequence)
    sumIdx,     \* how many elements of numbersTosum the range loop has taken
    sumpc,      \* "loop" while the function runs, "returned" or "panicked" after
    sumCallee   \* which of SumAll and SumAllTails is called

syncVars == <<value, mu, wg, tpc, spawned, gpc, greg, got>>
countdownVars == <<cpc, ci, Calls>>
racerVars == <<ra, rb, timout, delay, now, rpc, pings, timerAt, timerFired, winner, errror>>
contextVars == <<response, ctxDone, cancelPhase, hpc, wpc, wi, result, data, fres, ferr, written>>
chatVars == <<kpc, kcalls, kfail, kstatus, kdecoded, ksent, kreq, klog, kbody, kresp, kerr>>
agentVars == <<apc, opts, applied, SystemPrompt, MaxRetries, History, runs, histBefore, usrMsg, sends>>
registryVars == <<tools, regpc, regCall, regErr>>
schemaVars == <<schemaInput, callStack, callArg, callResult, genpc>>
workersVars == <<urls, wc, mpc, started, wkpc, sent, received, collected, lastResult, results, writing>>
helloVars == <<helloName, helloLanguage, hellopc, greeting>>
sumVars == <<numbersTosum, sums, sumIdx, sumpc, sumCallee>>
dictVars == <<dictionary, dictNil, dictpc, dictLog, searched, searchedAt, definition, searchErr>>
earlierVars == <<syncVars, countdownVars, racerVars, contextVars, chatVars, agentVars, registryVars>>
laterVars == <<schemaVars, dictVars, workersVars, helloVars, sumVars>>
vars == <<earlierVars, laterVars>>

\* what the actions of one program leave alone: the other programs' variables
counterFrame == <<countdownVars, racerVars, contextVars, chatVars, agentVars, registryVars, laterVars>>
countdownFrame == <<syncVars, racerVars, contextVars, chatVars, agentVars, registryVars, laterVars>>
racerFrame == <<syncVars, countdownVars, contextVars, chatVars, agentVars, registryVars, laterVars>>
contextFrame == <<syncVars, countdownVars, racerVars, chatVars, agentVars, registryVars, laterVars>>
chatFrame == <<syncVars, countdownVars, racerVars, contextVars, agentVars, registryVars, laterVars>>
agentFrame == <<syncVars, countdownVars, racerVars, contextVars, chatVars, registryVars, laterVars>>
schemaFrame == <<earlierVars, dictVars, workersVars, helloVars, sumVars>>
dictFrame == <<earlierVars, schemaVars, workersVars, helloVars, sumVars>>
workersFrame == <<earlierVars, schemaVars, dictVars, helloVars, sumVars>>
helloFrame == <<earlierVars, schemaVars, dictVars, workersVars, sumVars>>
sumFrame == <<earlierVars, schemaVars, dictVars, workersVars, helloVars>>
registryFrame == <<syncVars, countdownVars, racerVars, contextVars, chatVars, agentVars, laterVars>>

Goroutines == 1..WantedCount

(***************************************************************************)
(* Counter (mutex-guarded) and TestCounter                                 *)
(***************************************************************************)
InitCounter ==
    /\ value = 0
    /\ mu = 0
    /\ wg = 0
    /\ tpc = "add"
    /\ spawned = 0
    /\ gpc = [g \in Goroutines |-> "idle"]
    /\ greg = [g \in Goroutines |-> 0]
    /\ got = -1

\* wg.Add(wantedCount)
TestWgAdd ==
    /\ tpc = "add"
    /\ wg' = wg + WantedCount
    /\ tpc' = "loop"
    /\ UNCHANGED <<value, mu, spawned, gpc, greg, got>>
    /\ UNCHANGED counterFrame

\* for range wantedCount { go func() { ... }() }
TestGo ==
    /\ tpc = "loop"
    /\ IF spawned < WantedCount
          THEN /\ spawned' = spawned + 1
               /\ gpc' = [gpc EXCEPT ![spawned + 1] = "lock"]
               /\ tpc' = tpc
          ELSE /\ tpc' = "wait"
               /\ UNCHANGED <<spawned, gpc>>
    /\ UNCHANGED <<value, mu, wg, greg, got>>
    /\ UNCHANGED counterFrame

\* a Lock that never waits
MutexNeverBlocks(g) == TRUE

\* sync.Mutex.Lock: blocks until the mutex is available
MutexCanLock(g) == mu = 0

\* c.mu.Lock()
IncLock(g) ==
    /\ gpc[g] = "lock"
    /\ MutexCanLock(g)
    /\ mu' = g
    /\ gpc' = [gpc EXCEPT ![g] = "load"]
    /\ UNCHANGED <<value, wg, tpc, spawned, greg, got>>
    /\ UNCHANGED counterFrame

\* c.value++ : load
IncLoad(g) ==
    /\ gpc[g] = "load"
    /\ greg' = [greg EXCEPT ![g] = value]
    /\ gpc' = [gpc EXCEPT ![g] = "store"]
    /\ UNCHANGED <<value, mu, wg, tpc, spawned, got>>
    /\ UNCHANGED counterFrame

\* c.value++ : store
IncStore(g) ==
    /\ gpc[g] = "store"
    /\ value' = greg[g] + 1
    /\ gpc' = [gpc EXCEPT ![g] = "unlock"]
    /\ UNCHANGED <<mu, wg, tpc, spawned, greg, got>>
    /\ UNCHANGED counterFrame

\* an Inc that returns with the mutex still locked
IncKeepsLock(g) ==
    /\ gpc[g] = "unlock"
    /\ gpc' = [gpc EXCEPT ![g] = "done"]
    /\ UNCHANGED <<value, mu, wg, tpc, spawned, greg, got>>
    /\ UNCHANGED counterFrame

\* defer c.mu.Unlock(), run when Inc returns
IncUnlock(g) ==
    /\ gpc[g] = "unlock"
    /\ mu' = 0
    /\ gpc' = [gpc EXCEPT ![g] = "done"]
    /\ UNCHANGED <<value, wg, tpc, spawned, greg, got>>
    /\ UNCHANGED counterFrame

\* wg.Done()
GoWgDone(g) ==
    /\ gpc[g] = "done"
    /\ wg' = wg - 1
    /\ gpc' = [gpc EXCEPT ![g] = "end"]
    /\ UNCHANGED <<value, mu, tpc, spawned, greg, got>>
    /\ UNCHANGED counterFrame

\* a Wait that returns at once
WaitNeverBlocks == TRUE

\* sync.WaitGroup.Wait: blocks until the counter is zero
WaitCanReturn == wg = 0

\* wg.Wait()
TestWgWait ==
    /\ tpc = "wait"
    /\ WaitCanReturn
    /\ tpc' = "assert"
    /\ UNCHANGED <<value, mu, wg, spawned, gpc, greg, got>>
    /\ UNCHANGED counterFrame

\* Counter.Value()
CounterValue == value

\* assertCounter(t, &counter, wantedCount)
TestAssert ==
    /\ tpc = "assert"
    /\ got' = CounterValue
    /\ tpc' = "end"
    /\ UNCHANGED <<value, mu, wg, spawned, gpc, greg>>
    /\ UNCHANGED counterFrame

(***************************************************************************)
(* Countdown(out, sleeper) with one SpyCountdownOperations as both         *)
(***************************************************************************)
InitCountdown ==
    /\ cpc = "init"
    /\ ci = 0
    /\ Calls = <<>>

\* SpyCountdownOperations.Write
SpyWrite(calls) == Append(calls, write)

\* SpyCountdownOperations.Sleep
SpySleep(calls) == Append(calls, sleep)

\* i := countdownStart
CountdownStart ==
    /\ cpc = "init"
    /\ ci' = countdownStart
    /\ cpc' = "test"
    /\ UNCHANGED Calls
    /\ UNCHANGED countdownFrame

\* a loop that runs once more, down to i = 0
CountdownContinuesToZero(i) == i >= 0

\* loop condition i > 0
CountdownContinues(i) == i > 0

\* the for statement's test
CountdownTest ==
    /\ cpc = "test"
    /\ cpc' = IF CountdownContinues(ci) THEN "print" ELSE "final"
    /\ UNCHANGED <<ci, Calls>>
    /\ UNCHANGED countdownFrame

\* fmt.Fprint(out, i)
CountdownWriteNumber ==
    /\ cpc = "print"
    /\ Calls' = SpyWrite(Calls)
    /\ cpc' = "sleep"
    /\ UNCHANGED ci
    /\ UNCHANGED countdownFrame

\* sleeper.Sleep(); i--
CountdownSleep ==
    /\ cpc = "sleep"
    /\ Calls' = SpySleep(Calls)
    /\ ci' = ci - 1
    /\ cpc' = "test"
    /\ UNCHANGED countdownFrame

\* fmt.Fprint(out, finalWord)
CountdownFinal ==
    /\ cpc = "final"
    /\ Calls' = SpyWrite(Calls)
    /\ cpc' = "done"
    /\ UNCHANGED ci
    /\ UNCHANGED countdownFrame

(***************************************************************************)
(* Racer(a, b, timout) and ping(url)                                       *)
(***************************************************************************)
URLs == {"u1", "u2"}
Nil == "nil"
ErrTimedOut == "timed out waiting"

\* the racer's variables while another program is the one running
IdleRacer ==
    /\ ra = "u1" /\ rb = "u1" /\ timout = 1
    /\ delay = [u \in URLs |-> 1]
    /\ now = 0 /\ rpc = "idle" /\ pings = <<>>
    /\ timerAt = -1 /\ timerFired = FALSE
    /\ winner = "" /\ errror = Nil

InitRacer ==
    /\ ra \in URLs /\ rb \in URLs
    /\ timout \in 1..MaxTime
    /\ delay \in [URLs -> 1..(MaxTime + 1)]
    /\ now = 0 /\ rpc = "case1" /\ pings = <<>>
    /\ timerAt = -1 /\ timerFired = FALSE
    /\ winner = "" /\ errror = Nil

\* the URL whose ping is the channel operand of the k-th case of the select
RacerCaseUrl(k, a, b) == IF k = 1 THEN a ELSE a

\* what the k-th case of the select returns as winner
RacerCaseWinner(k, a, b) == IF k = 1 THEN a ELSE a

\* ping(url): make the channel, start the goroutine, return the channel
ping(url) == Append(pings, [url |-> url, st |-> "getting", start |-> now])

\* the select evaluates its channel operands in source order: case 1, case 2
RacerPing(k) ==
    /\ rpc = (IF k = 1 THEN "case1" ELSE "case2")
    /\ pings' = ping(RacerCaseUrl(k, ra, rb))
    /\ rpc' = (IF k = 1 THEN "case2" ELSE "case3")
    /\ UNCHANGED <<ra, rb, timout, delay, now, timerAt, timerFired, winner, errror>>
    /\ UNCHANGED racerFrame

\* ... then time.After(timout)
RacerAfter ==
    /\ rpc = "case3"
    /\ timerAt' = now + timout
    /\ rpc' = "select"
    /\ UNCHANGED <<ra, rb, timout, delay, now, pings, timerFired, winner, errror>>
    /\ UNCHANGED racerFrame

\* http.Get(url) returns (with a response or an error) once the URL answered
GetDue(i) == pings[i].st = "getting" /\ now >= pings[i].start + delay[pings[i].url]

PingGetReturns(i) ==
    /\ GetDue(i)
    /\ pings' = [pings EXCEPT ![i].st = "got"]
    /\ UNCHANGED <<ra, rb, timout, delay, now, rpc, timerAt, timerFired, winner, errror>>
    /\ UNCHANGED racerFrame

\* a ping that closes its channel without waiting for the GET
PingClosesAtOnce(i) ==
    /\ pings[i].st = "getting"
    /\ pings' = [pings EXCEPT ![i].st = "closed"]
    /\ UNCHANGED <<ra, rb, timout, delay, now, rpc, timerAt, timerFired, winner, errror>>
    /\ UNCHANGED racerFrame

\* a ping that signals by a send on its unbuffered channel: the send needs
\* Racer to be waiting in its select
PingSendsToReader(i) ==
    /\ pings[i].st = "got"
    /\ rpc = "select"
    /\ pings' = [pings EXCEPT ![i].st = "closed"]
    /\ UNCHANGED <<ra, rb, timout, delay, now, rpc, timerAt, timerFired, winner, errror>>
    /\ UNCHANGED racerFrame

\* close(ch); the goroutine ends
PingClose(i) ==
    /\ pings[i].st = "got"
    /\ pings' = [pings EXCEPT ![i].st = "closed"]
    /\ UNCHANGED <<ra, rb, timout, delay, now, rpc, timerAt, timerFired, winner, errror>>
    /\ UNCHANGED racerFrame

\* a timer that fires one tick late
TimerDueLate == timerAt >= 0 /\ ~timerFired /\ now >= timerAt + 1

\* the runtime timer behind time.After sends on its channel
TimerDue == timerAt >= 0 /\ ~timerFired /\ now >= timerAt

TimerFires ==
    /\ TimerDue
    /\ timerFired' = TRUE
    /\ UNCHANGED <<ra, rb, timout, delay, now, rpc, pings, timerAt, winner, errror>>
    /\ UNCHANGED racerFrame

\* a receive from a closed channel can proceed
CaseReady(k) == k <= Len(pings) /\ pings[k].st = "closed"

\* select: one of the cases that can proceed is chosen
RacerSelectPing(k) ==
    /\ rpc = "select"
    /\ CaseReady(k)
    /\ winner' = RacerCaseWinner(k, ra, rb)
    /\ errror' = Nil
    /\ rpc' = "returned"
    /\ UNCHANGED <<ra, rb, timout, delay, now, pings, timerAt, timerFired>>
    /\ UNCHANGED racerFrame

RacerSelectTimeout ==
    /\ rpc = "select"
    /\ timerFired
    /\ winner' = ""
    /\ errror' = ErrTimedOut
    /\ rpc' = "returned"
    /\ UNCHANGED <<ra, rb, timout, delay, now, pings, timerAt, timerFired>>
    /\ UNCHANGED racerFrame

\* time passes only when nothing is due at the current instant
Urgent ==
    \/ rpc \in {"case1", "case2", "case3"}
    \/ \E i \in 1..Len(pings) : GetDue(i) \/ pings[i].st = "got"
    \/ TimerDue
    \/ rpc = "select" /\ (timerFired \/ \E k \in 1..2 : CaseReady(k))

Tick ==
    /\ now < MaxTime
    /\ ~Urgent
    /\ now' = now + 1
    /\ UNCHANGED <<ra, rb, timout, delay, rpc, pings, timerAt, timerFired, winner, errror>>
    /\ UNCHANGED racerFrame

(***************************************************************************)
(* Server(store) and SpyStore.Fetch(ctx)                                   *)
(***************************************************************************)
Chars == {"a", "b"}
ErrCanceled == "context canceled"

\* sequences over S of length at most n
SeqsUpTo(S, n) == UNION {[1..k -> S] : k \in 0..n}

\* the context program's variables while another program is the one running
IdleContext ==
    /\ response = <<>> /\ ctxDone = FALSE /\ cancelPhase = "none"
    /\ hpc = "idle" /\ wpc = "none" /\ wi = 1 /\ result = <<>>
    /\ data = <<>> /\ fres = <<>> /\ ferr = Nil /\ written = <<>>

InitContext ==
    /\ response \in SeqsUpTo(Chars, MaxResponse)
    /\ ctxDone = FALSE /\ cancelPhase = "none"
    /\ hpc = "start" /\ wpc = "none" /\ wi = 1 /\ result = <<>>
    /\ data = <<>> /\ fres = <<>> /\ ferr = Nil /\ written = <<>>

\* the worker still has a check of ctx.Done() ahead of it
WorkerCheckAhead ==
    \/ wpc = "none" /\ Len(response) > 0
    \/ wpc = "loop" /\ wi <= Len(response)
    \/ wpc = "sleep" /\ wi < Len(response)

\* cancel(): the context's Done channel is closed
Cancel ==
    /\ ~ctxDone
    /\ ctxDone' = TRUE
    /\ cancelPhase' = IF WorkerCheckAhead THEN "early"
                      ELSE IF wpc = "finished" THEN "after" ELSE "late"
    /\ UNCHANGED <<response, hpc, wpc, wi, result, data, fres, ferr, written>>
    /\ UNCHANGED contextFrame

\* the handler calls store.Fetch(r.Context()); Fetch makes the channel
HandlerCallsFetch ==
    /\ hpc = "start"
    /\ data' = <<>>
    /\ hpc' = "go"
    /\ UNCHANGED <<response, ctxDone, cancelPhase, wpc, wi, result, fres, ferr, written>>
    /\ UNCHANGED contextFrame

\* Fetch: go func() { var result string; for _, c := range s.response ... }()
FetchGo ==
    /\ hpc = "go"
    /\ wpc' = "loop" /\ wi' = 1 /\ result' = <<>>
    /\ hpc' = "select"
    /\ UNCHANGED <<response, ctxDone, cancelPhase, data, fres, ferr, written>>
    /\ UNCHANGED contextFrame

\* a worker that never looks at ctx.Done()
WorkerNeverSeesDone == FALSE

\* worker: case <-ctx.Done() can proceed
WorkerSeesDone == ctxDone

\* worker: next iteration of the range loop, and its select
WorkerLoop ==
    /\ wpc = "loop"
    /\ wpc' = IF wi > Len(response) THEN "send"
              ELSE IF WorkerSeesDone THEN "aborted"
              ELSE "sleep"
    /\ UNCHANGED <<response, ctxDone, cancelPhase, hpc, wi, result, data, fres, ferr, written>>
    /\ UNCHANGED contextFrame

\* worker: default: time.Sleep(10ms); result += string(c)
WorkerSleep ==
    /\ wpc = "sleep"
    /\ result' = Append(result, response[wi])
    /\ wi' = wi + 1
    /\ wpc' = "loop"
    /\ UNCHANGED <<response, ctxDone, cancelPhase, hpc, data, fres, ferr, written>>
    /\ UNCHANGED contextFrame

\* a worker whose data channel has no buffer: the send needs Fetch to be
\* waiting in its select, and hands the result over to it
WorkerSendsToReader ==
    /\ wpc = "send"
    /\ hpc = "select"
    /\ fres' = result /\ ferr' = Nil
    /\ hpc' = "check"
    /\ wpc' = "finished"
    /\ UNCHANGED <<response, ctxDone, cancelPhase, wi, result, data, written>>
    /\ UNCHANGED contextFrame

\* worker: data <- result, on a channel of capacity 1
WorkerSend ==
    /\ wpc = "send"
    /\ Len(data) < 1
    /\ data' = Append(data, result)
    /\ wpc' = "finished"
    /\ UNCHANGED <<response, ctxDone, cancelPhase, hpc, wi, result, fres, ferr, written>>
    /\ UNCHANGED contextFrame

\* Fetch: select, case <-ctx.Done(): return "", ctx.Err()
FetchSelectDone ==
    /\ hpc = "select"
    /\ ctxDone
    /\ fres' = <<>> /\ ferr' = ErrCanceled
    /\ hpc' = "check"
    /\ UNCHANGED <<response, ctxDone, cancelPhase, wpc, wi, result, data, written>>
    /\ UNCHANGED contextFrame

\* Fetch: select, case res := <-data: return res, nil
FetchSelectData ==
    /\ hpc = "select"
    /\ Len(data) > 0
    /\ fres' = Head(data) /\ ferr' = Nil
    /\ data' = Tail(data)
    /\ hpc' = "check"
    /\ UNCHANGED <<response, ctxDone, cancelPhase, wpc, wi, result, written>>
    /\ UNCHANGED contextFrame

\* a handler that goes on whatever Fetch returned
HandlerNeverReturnsOnErr(err) == FALSE

\* handler: if err != nil { return }
HandlerReturnsOnErr(err) == err # Nil

HandlerCheck ==
    /\ hpc = "check"
    /\ hpc' = IF HandlerReturnsOnErr(ferr) THEN "done" ELSE "write"
    /\ UNCHANGED <<response, ctxDone, cancelPhase, wpc, wi, result, data, fres, ferr, written>>
    /\ UNCHANGED contextFrame

\* handler: fmt.Fprint(w, data), one Write call
HandlerWrite ==
    /\ hpc = "write"
    /\ written' = Append(written, fres)
    /\ hpc' = "done"
    /\ UNCHANGED <<response, ctxDone, cancelPhase, wpc, wi, result, data, fres, ferr>>
    /\ UNCHANGED contextFrame

(***************************************************************************)
(* llm.Client.CreateChat(ctx, req)                                         *)
(***************************************************************************)
\* the status codes the server answers with
Statuses == {200, 201, 404, 500}

\* the ChatRequest values the callers pass
Requests == {"req1", "req2"}
BaseURL == "https://openrouter.ai/api/v1"

\* HTTP requests issued by all calls
ktotal == Len(klog)

InitChat ==
    /\ kpc = "start" /\ kcalls = 0 /\ kfail = "none" /\ kstatus = 0
    /\ kdecoded = "unset" /\ ksent = 0 /\ kreq = "" /\ klog = <<>> /\ kbody = "none"
    /\ kresp = Nil /\ kerr = Nil

\* a caller calls c.CreateChat(ctx, req)
ChatCall(req) ==
    /\ kpc \in {"start", "returned"}
    /\ kcalls < MaxCalls
    /\ kreq' = req
    /\ kcalls' = kcalls + 1
    /\ kpc' = "marshal"
    /\ kfail' = "none" /\ kstatus' = 0 /\ kdecoded' = "unset" /\ ksent' = 0
    /\ kbody' = "none" /\ kresp' = Nil /\ kerr' = Nil
    /\ UNCHANGED klog
    /\ UNCHANGED chatFrame

\* jsonData, err := json.Marshal(req); if err != nil { return nil, ... }
ChatMarshal(ok) ==
    /\ kpc = "marshal"
    /\ IF ok
          THEN /\ kpc' = "newreq"
               /\ UNCHANGED <<kfail, kresp, kerr>>
          ELSE /\ kpc' = "returned"
               /\ kfail' = "marshal"
               /\ kresp' = Nil /\ kerr' = "Unable to marshal Data"
    /\ UNCHANGED <<kcalls, kstatus, kdecoded, ksent, kreq, klog, kbody>>
    /\ UNCHANGED chatFrame

\* httpReq, err := http.NewRequestWithContext(...); if err != nil { return nil, ... }
ChatNewRequest(ok) ==
    /\ kpc = "newreq"
    /\ IF ok
          THEN /\ kpc' = "do"
               /\ UNCHANGED <<kfail, kresp, kerr>>
          ELSE /\ kpc' = "returned"
               /\ kfail' = "newreq"
               /\ kresp' = Nil /\ kerr' = "Unable to create the request"
    /\ UNCHANGED <<kcalls, kstatus, kdecoded, ksent, kreq, klog, kbody>>
    /\ UNCHANGED chatFrame

\* a client that sends the request again after a transport error
RetryAfterTransportError == "do"

\* if err != nil { return nil, fmt.Errorf("Unable to fetch response ...") }
AfterTransportError == "returned"

\* resp, err := c.HTTPClient.Do(httpReq): one HTTP request; st = 0 is a
\* transport error, otherwise the status of the response
ChatDo(st) ==
    /\ kpc = "do"
    /\ ksent' = ksent + 1
    /\ klog' = Append(klog, [method |-> "POST", url |-> <<BaseURL, "/chat/completions">>,
                              body |-> kreq])
    /\ IF st = 0
          THEN /\ kpc' = AfterTransportError
               /\ kfail' = "transport"
               /\ kresp' = Nil /\ kerr' = "Unable to fetch response"
               /\ UNCHANGED <<kstatus, kbody>>
          ELSE /\ kpc' = "status"
               /\ kstatus' = st
               /\ kbody' = "open"
               /\ UNCHANGED <<kfail, kresp, kerr>>
    /\ UNCHANGED <<kcalls, kdecoded, kreq>>
    /\ UNCHANGED chatFrame

\* a check that only rejects the 4xx and 5xx codes
StatusBelow400(st) == st < 400

\* resp.StatusCode != http.StatusOK, negated
StatusIsOK(st) == st = StatusOK

\* a CreateChat without the deferred Close
BodyLeftAsIs(body) == body

\* defer resp.Body.Close(), run when CreateChat returns
DeferredClose(body) == IF body = "open" THEN "closed" ELSE body

\* if resp.StatusCode != http.StatusOK { return nil, fmt.Errorf(...) }
ChatCheckStatus ==
    /\ kpc = "status"
    /\ IF StatusIsOK(kstatus)
          THEN /\ kpc' = "decode"
               /\ UNCHANGED <<kresp, kerr, kbody>>
          ELSE /\ kpc' = "returned"
               /\ kresp' = Nil /\ kerr' = "unexpected status code"
               /\ kbody' = DeferredClose(kbody)
    /\ UNCHANGED <<kcalls, kfail, kstatus, kdecoded, ksent, kreq, klog>>
    /\ UNCHANGED chatFrame

\* json.NewDecoder(resp.Body).Decode(&chatResp); return &chatResp, nil
ChatDecode(ok) ==
    /\ kpc = "decode"
    /\ kpc' = "returned"
    /\ kdecoded' = IF ok THEN "ok" ELSE "fail"
    /\ kresp' = IF ok THEN "chatResp" ELSE Nil
    /\ kerr' = IF ok THEN Nil ELSE "error decoding response"
    /\ kbody' = DeferredClose(kbody)
    /\ UNCHANGED <<kcalls, kfail, kstatus, ksent, kreq, klog>>
    /\ UNCHANGED chatFrame

(***************************************************************************)
(* agent.New(client, model, opts...), the options, Agent.Run               *)
(***************************************************************************)
Prompts == {"", "be brief", "be kind"}
RetryCounts == {0, 3}
UserMessages == {"hi", "bye"}

\* WithSystemPrompts(prompt)
WithSystemPrompts(prompt) == [kind |-> "prompt", prompt |-> prompt, n |-> 0]

\* WithMaxRetries(n)
WithMaxRetries(n) == [kind |-> "retries", prompt |-> "", n |-> n]

Options ==
    {WithSystemPrompts(q) : q \in Prompts} \cup {WithMaxRetries(n) : n \in RetryCounts}

\* llm.NewSystemMessage / NewUserMessage / NewAssistantMessage
Message(role, content) == [Role |-> role, Content |-> content]

InitAgent ==
    /\ apc = "new"
    /\ opts \in SeqsUpTo(Options, MaxOpts)
    /\ applied = <<>>
    /\ SystemPrompt = "" /\ MaxRetries = 0 /\ History = <<>>
    /\ runs = 0 /\ histBefore = <<>> /\ usrMsg = "" /\ sends = <<>>

\* a := &Agent{client, Model, MaxRetries: 1, History: make([]llm.Message, 0)}
NewDefaults ==
    /\ apc = "new"
    /\ MaxRetries' = DefaultMaxRetries
    /\ SystemPrompt' = ""
    /\ History' = <<>>
    /\ apc' = "opts"
    /\ UNCHANGED <<opts, applied, runs, histBefore, usrMsg, sends>>
    /\ UNCHANGED agentFrame

\* for _, opt := range opts { opt(a) }
NewApplyOption ==
    /\ apc = "opts"
    /\ opts # <<>>
    /\ LET opt == Head(opts) IN
        /\ SystemPrompt' = IF opt.kind = "prompt" THEN opt.prompt ELSE SystemPrompt
        /\ MaxRetries' = IF opt.kind = "retries" THEN opt.n ELSE MaxRetries
    /\ opts' = Tail(opts)
    /\ applied' = Append(applied, Head(opts))
    /\ UNCHANGED <<apc, History, runs, histBefore, usrMsg, sends>>
    /\ UNCHANGED agentFrame

\* a New that opens History with a system message whatever the prompt
SystemPromptAlways(prompt) == TRUE

\* a.SystemPrompt != ""
SystemPromptPresent(prompt) == prompt # ""

\* if a.SystemPrompt != "" { a.History = append(a.History, system message) }
NewInitHistory ==
    /\ apc = "opts"
    /\ opts = <<>>
    /\ History' = IF SystemPromptPresent(SystemPrompt)
                     THEN Append(History, Message("system", SystemPrompt))
                     ELSE History
    /\ apc' = "ready"
    /\ UNCHANGED <<opts, applied, SystemPrompt, MaxRetries, runs, histBefore, usrMsg, sends>>
    /\ UNCHANGED agentFrame

\* func (a *Agent) Run(ctx, usrMsg) (string, error) { }: the body is empty
Run(msg) ==
    /\ apc = "ready"
    /\ runs < MaxRuns
    /\ histBefore' = History
    /\ usrMsg' = msg
    /\ runs' = runs + 1
    /\ UNCHANGED <<apc, opts, applied, SystemPrompt, MaxRetries, History, sends>>
    /\ UNCHANGED agentFrame

\* the variables of CreateChat and of the agent while another program runs
IdleChat ==
    /\ kpc = "idle" /\ kcalls = 0 /\ kfail = "none" /\ kstatus = 0
    /\ kdecoded = "unset" /\ ksent = 0 /\ kreq = "" /\ klog = <<>> /\ kbody = "none"
    /\ kresp = Nil /\ kerr = Nil

IdleAgent ==
    /\ apc = "idle" /\ opts = <<>> /\ applied = <<>>
    /\ SystemPrompt = "" /\ MaxRetries = 0 /\ History = <<>>
    /\ runs = 0 /\ histBefore = <<>> /\ usrMsg = "" /\ sends = <<>>

(***************************************************************************)
(* jsonschema.GenerateSchema(t)                                            *)
(*                                                                         *)
(* A reflect.Type is a name of the catalogue TypeOf.  A json struct tag is *)
(* a sequence of atoms: "," and "-" are those characters, "omitempty" is   *)
(* that word, every other atom is a word without commas.                   *)
(***************************************************************************)
T(kind) == [kind |-> kind, elem |-> "", fields |-> <<>>]
Ptr(elem) == [kind |-> "ptr", elem |-> elem, fields |-> <<>>]
Struct(fields) == [kind |-> "struct", elem |-> "", fields |-> fields]
Field(name, type, tag, desc) == [name |-> name, type |-> type, tag |-> tag, desc |-> desc]

\* WeatherArgs of the registry's test
WeatherArgs ==
    Struct(<< Field("City", "string", <<"city">>, "The city name to check weather for"),
              Field("Days", "int", <<"days">>, "Number of days for forecast") >>)

\* a struct with an optional field, a nested struct, a pointer, an excluded
\* field, an untagged field and a slice
Forecast ==
    Struct(<< Field("Unit", "string", <<"unit", ",", "omitempty">>, ""),
              Field("Where", "WeatherArgs", <<"where">>, "place and span"),
              Field("Again", "*WeatherArgs", <<"again", ",", "omitempty">>, ""),
              Field("Hidden", "string", <<"-">>, ""),
              Field("Untagged", "int", <<>>, "not exported to json"),
              Field("Tags", "[]string", <<"tags">>, "") >>)

\* a struct whose slice field carries a description
Tagged ==
    Struct(<< Field("City", "string", <<"city">>, ""),
              Field("Tags", "[]string", <<"tags">>, "labels") >>)

\* a linked list: a struct that reaches itself through a json-tagged pointer
Node ==
    Struct(<< Field("Val", "int", <<"val">>, ""),
              Field("Next", "*Node", <<"next", ",", "omitempty">>, "the following node") >>)

\* two structs that reach each other
Parent == Struct(<< Field("Kid", "Child", <<"kid">>, "") >>)
Child == Struct(<< Field("Up", "*Parent", <<"up">>, "") >>)

\* a struct whose pointers to itself are untagged or excluded from json
Shy ==
    Struct(<< Field("Self", "*Shy", <<>>, ""),
              Field("Other", "*Shy", <<"-">>, ""),
              Field("Name", "string", <<"name">>, "") >>)

\* a struct that reaches itself through a pointer to a pointer
Twice == Struct(<< Field("Again", "**Twice", <<"again">>, "") >>)

\* two fields with the same json name
Dup ==
    Struct(<< Field("A", "string", <<"x">>, ""),
              Field("B", "int", <<"x">>, "") >>)

\* a described slice field ahead of a pointer to the struct itself
PanicLoop ==
    Struct(<< Field("Tags", "[]string", <<"tags">>, "labels"),
              Field("Next", "*PanicLoop", <<"next">>, "") >>)

\* a field whose json name is the word omitempty, with the string option
Flags ==
    Struct(<< Field("Omitempty", "bool", <<"omitempty", ",", "string">>, ""),
              Field("Verbose", "bool", <<"verbose", ",", "omitempty">>, ""),
              Field("Level", "int", <<"level", ",", "string">>, "") >>)

\* the types the registry's functions take
AcyclicNames ==
    {"string", "int", "int64", "float64", "bool", "uint", "[]string",
     "WeatherArgs", "*WeatherArgs", "**WeatherArgs", "Forecast", "Tagged"}

TypeNames ==
    AcyclicNames \cup
    {"Node", "*Node", "Parent", "Child", "*Parent", "Shy", "*Shy",
     "Twice", "*Twice", "**Twice", "Dup", "PanicLoop", "*PanicLoop", "Flags"}

TypeOf ==
    [t \in TypeNames |->
        CASE t = "WeatherArgs" -> WeatherArgs
          [] t = "*WeatherArgs" -> Ptr("WeatherArgs")
          [] t = "**WeatherArgs" -> Ptr("*WeatherArgs")
          [] t = "Forecast" -> Forecast
          [] t = "Tagged" -> Tagged
          [] t = "Node" -> Node
          [] t = "*Node" -> Ptr("Node")
          [] t = "Parent" -> Parent
          [] t = "Child" -> Child
          [] t = "*Parent" -> Ptr("Parent")
          [] t = "Shy" -> Shy
          [] t = "*Shy" -> Ptr("Shy")
          [] t = "Twice" -> Twice
          [] t = "*Twice" -> Ptr("Twice")
          [] t = "**Twice" -> Ptr("*Twice")
          [] t = "Dup" -> Dup
          [] t = "PanicLoop" -> PanicLoop
          [] t = "*PanicLoop" -> Ptr("PanicLoop")
          [] t = "Flags" -> Flags
          [] t = "[]string" -> T("slice")
          [] OTHER -> T(t)]

\* a nil map[string]any
NilSchema == [nil |-> TRUE]
\* the call panicked
Panicked == [panic |-> TRUE]

\* m[k] = v
MapPut(m, k, v) == [x \in (DOMAIN m) \cup {k} |-> IF x = k THEN v ELSE m[x]]

\* if t.Kind() == reflect.Ptr { t = t.Elem() }
Deref(t) == IF TypeOf[t].kind = "ptr" THEN TypeOf[t].elem ELSE t

\* the switch over the primitive kinds
PrimitiveSchema(kind) ==
    CASE kind = "string" -> [type |-> "string"]
      [] kind \in {"int", "int8", "int16", "int32", "int64"} -> [type |-> "integer"]
      [] kind \in {"float32", "float64"} -> [type |-> "number"]
      [] kind = "bool" -> [type |-> "boolean"]
      [] OTHER -> NilSchema

\* a field loop without its continue
SkipNothing(tag) == FALSE

\* jsonTag == "" || jsonTag == "-"
SkipField(tag) == tag = <<>> \/ tag = <<"-">>

\* strings.Contains(jsonTag, ",")
TagHasComma(tag) == \E i \in 1..Len(tag) : tag[i] = ","

\* strings.Contains(jsonTag, "omitempty")
TagContainsOmitempty(tag) == \E i \in 1..Len(tag) : tag[i] = "omitempty"

\* strings.Split(jsonTag, ",")[0], or the whole tag when it has no comma
TagName(tag) ==
    IF TagHasComma(tag)
       THEN LET c == CHOOSE i \in 1..Len(tag) :
                        tag[i] = "," /\ \A j \in 1..(i - 1) : tag[j] # ","
            IN SubSeq(tag, 1, c - 1)
       ELSE tag

\* whether the field's name is appended to required
FieldRequired(tag) == IF TagHasComma(tag) THEN ~TagContainsOmitempty(tag) ELSE TRUE

RECURSIVE GenerateSchema(_)
RECURSIVE StructFields(_, _, _, _)

\* the loop over the struct's fields, from field i on
StructFields(fields, i, properties, required) ==
    IF i > Len(fields)
       THEN [type |-> "object", properties |-> properties, required |-> required]
       ELSE LET field == fields[i] IN
            IF SkipField(field.tag)
               THEN StructFields(fields, i + 1, properties, required)
               ELSE LET name == TagName(field.tag)
                        req == IF FieldRequired(field.tag)
                                  THEN Append(required, name) ELSE required
                        fieldSchema == GenerateSchema(field.type)
                    IN  IF fieldSchema = Panicked
                           THEN Panicked
                        ELSE IF field.desc # "" /\ fieldSchema = NilSchema
                           \* fieldSchema["description"] = desc on a nil map
                           THEN Panicked
                        ELSE StructFields(fields, i + 1,
                                MapPut(properties, name,
                                       IF field.desc # ""
                                          THEN MapPut(fieldSchema, "description", field.desc)
                                          ELSE fieldSchema),
                                req)

GenerateSchema(t0) ==
    LET t == Deref(t0)
        kind == TypeOf[t].kind
    IN  IF PrimitiveSchema(kind) # NilSchema THEN PrimitiveSchema(kind)
        ELSE IF kind = "struct" THEN StructFields(TypeOf[t].fields, 1, <<>>, <<>>)
        ELSE NilSchema

(***************************************************************************)
(* GenerateSchema call by call: the calls in progress are a stack of the   *)
(* struct-case activations, each with its locals.                          *)
(***************************************************************************)
NoType == ""
\* no call has returned a value that is still to be consumed
NoSchema == [none |-> TRUE]

Activation(t, i, name, properties, required) ==
    [t |-> t, i |-> i, name |-> name, properties |-> properties, required |-> required]

InitSchema ==
    /\ schemaInput \in TypeNames
    /\ callStack = <<>>
    /\ callArg = schemaInput
    /\ callResult = NoSchema
    /\ genpc = "running"

IdleSchema ==
    /\ schemaInput = NoType
    /\ callStack = <<>>
    /\ callArg = NoType
    /\ callResult = NoSchema
    /\ genpc = "idle"

\* the position after a call returned: the outermost call returns to the caller
AfterReturn(stack) == IF stack = <<>> THEN "returned" ELSE "running"

Top == callStack[Len(callStack)]
Below == SubSeq(callStack, 1, Len(callStack) - 1)

\* entering GenerateSchema(t): the dereference, the primitive switch, and for
\* a struct the two locals of the loop
GenEnter ==
    /\ genpc = "running"
    /\ callArg # NoType
    /\ LET t == Deref(callArg)
           kind == TypeOf[t].kind
       IN  IF PrimitiveSchema(kind) # NilSchema
              THEN /\ callResult' = PrimitiveSchema(kind)
                   /\ genpc' = AfterReturn(callStack)
                   /\ UNCHANGED callStack
           ELSE IF kind = "struct"
              THEN /\ Len(callStack) < MaxDepth
                   /\ callStack' = Append(callStack, Activation(t, 1, <<>>, <<>>, <<>>))
                   /\ UNCHANGED <<callResult, genpc>>
           ELSE /\ callResult' = NilSchema
                /\ genpc' = AfterReturn(callStack)
                /\ UNCHANGED callStack
    /\ callArg' = NoType
    /\ UNCHANGED schemaInput
    /\ UNCHANGED schemaFrame

\* one turn of the field loop up to the recursive call, or a skipped field
GenField ==
    /\ genpc = "running"
    /\ callArg = NoType /\ callResult = NoSchema
    /\ callStack # <<>>
    /\ Top.i <= Len(TypeOf[Top.t].fields)
    /\ LET field == TypeOf[Top.t].fields[Top.i] IN
       IF SkipField(field.tag)
          THEN /\ callStack' = Append(Below, [Top EXCEPT !.i = @ + 1])
               /\ UNCHANGED callArg
          ELSE /\ callStack' = Append(Below,
                        [Top EXCEPT !.name = TagName(field.tag),
                                    !.required = IF FieldRequired(field.tag)
                                                    THEN Append(@, TagName(field.tag))
                                                    ELSE @])
               /\ callArg' = field.type
    /\ UNCHANGED <<schemaInput, callResult, genpc>>
    /\ UNCHANGED schemaFrame

\* the rest of the turn: the description and properties[name] = fieldSchema
GenFieldDone ==
    /\ genpc = "running"
    /\ callResult # NoSchema
    /\ callStack # <<>>
    /\ LET field == TypeOf[Top.t].fields[Top.i] IN
       IF field.desc # "" /\ callResult = NilSchema
          \* fieldSchema["description"] = desc on a nil map
          THEN /\ genpc' = "panicked"
               /\ UNCHANGED callStack
          ELSE /\ callStack' = Append(Below,
                        [Top EXCEPT !.properties =
                                        MapPut(@, Top.name,
                                               IF field.desc # ""
                                                  THEN MapPut(callResult, "description", field.desc)
                                                  ELSE callResult),
                                    !.i = @ + 1])
               /\ UNCHANGED genpc
    /\ callResult' = NoSchema
    /\ UNCHANGED <<schemaInput, callArg>>
    /\ UNCHANGED schemaFrame

\* after the loop: return the object schema
GenReturn ==
    /\ genpc = "running"
    /\ callArg = NoType /\ callResult = NoSchema
    /\ callStack # <<>>
    /\ Top.i > Len(TypeOf[Top.t].fields)
    /\ callResult' = [type |-> "object", properties |-> Top.properties,
                       required |-> Top.required]
    /\ callStack' = Below
    /\ genpc' = AfterReturn(Below)
    /\ UNCHANGED <<schemaInput, callArg>>
    /\ UNCHANGED schemaFrame

(***************************************************************************)
(* tools.Registry and Register(name, description, function)                *)
(***************************************************************************)
ToolNames == {"get_weather", "forecast"}
Descriptions == {"Get current weather", "Get a forecast"}

\* a value passed as function: a func with its parameter types, or not a func
Func(id, ins) == [id |-> id, kind |-> "func", ins |-> ins]
NotFunc(id, kind) == [id |-> id, kind |-> kind, ins |-> <<>>]

Values ==
    { Func("GetWeather", <<"WeatherArgs">>),
      Func("GetWeatherPtr", <<"*WeatherArgs">>),
      Func("GetWeatherPtrPtr", <<"**WeatherArgs">>),
      Func("GetForecast", <<"Forecast">>),
      Func("Echo", <<"string">>),
      Func("Join", <<"[]string">>),
      Func("GetTagged", <<"Tagged">>),
      Func("Now", <<>>),
      Func("Add", <<"int", "int">>),
      NotFunc("42", "int"),
      NotFunc("nil", "nil") }

NoCall ==
    [name |-> "", description |-> "", function |-> NotFunc("", "none"),
     before |-> <<>>]

\* NewRegistry()
InitRegistry ==
    /\ tools = <<>>
    /\ regpc = "ready"
    /\ regCall = NoCall
    /\ regErr = Nil

IdleRegistry ==
    /\ tools = <<>>
    /\ regpc = "idle"
    /\ regCall = NoCall
    /\ regErr = Nil

\* a Register that files the tool under its description
ToolKeyDescription(name, description) == description

\* the key of r.tools[name] = Tool{...}
ToolKey(name, description) == name

\* Register(name, description, function)
Register(name, description, function) ==
    /\ regpc = "ready"
    /\ regCall' = [name |-> name, description |-> description,
                    function |-> function, before |-> tools]
    /\ IF function.kind = "nil"
          \* reflect.TypeOf(nil) is nil: fnType.Kind() panics
          THEN /\ regpc' = "panicked"
               /\ UNCHANGED <<tools, regErr>>
       ELSE IF function.kind # "func"
          THEN /\ regErr' = "this is not a valid function please try again"
               /\ UNCHANGED <<tools, regpc>>
       ELSE IF Len(function.ins) # 1
          THEN /\ regErr' = "function must have exactly 1 argument"
               /\ UNCHANGED <<tools, regpc>>
       ELSE LET argType == function.ins[1]
                schema == GenerateSchema(argType)
            IN  IF schema = Panicked
                   THEN /\ regpc' = "panicked"
                        /\ UNCHANGED <<tools, regErr>>
                   ELSE /\ tools' = MapPut(tools, ToolKey(name, description),
                                           [Name |-> name,
                                            Description |-> description,
                                            Func |-> function.id,
                                            ArgsType |-> argType,
                                            Schema |-> schema])
                        /\ regErr' = Nil
                        /\ UNCHANGED regpc
    /\ UNCHANGED registryFrame

(***************************************************************************)
(* Dictionary (a map[string]string) with Search, Add and Delete            *)
(***************************************************************************)
Words == {"test", "go"}
Definitions == {"this is just a test", "a language"}
\* the sentinel error
ErrNotFound == "ErrNotFound"

\* m := Dictionary{}, or the zero value of the type: a nil map
InitDict ==
    /\ dictionary = <<>>
    /\ dictNil \in BOOLEAN
    /\ dictpc = "ready"
    /\ dictLog = <<>>
    /\ searched = ""
    /\ searchedAt = 0
    /\ definition = ""
    /\ searchErr = Nil

IdleDict ==
    /\ dictionary = <<>>
    /\ dictNil = FALSE
    /\ dictpc = "idle"
    /\ dictLog = <<>>
    /\ searched = ""
    /\ searchedAt = 0
    /\ definition = ""
    /\ searchErr = Nil

\* a delete that leaves the map as it is
MapKeep(m, k) == m

\* delete(m, k): no-op when k is not a key, or m is nil
MapDelete(m, k) == [x \in (DOMAIN m) \ {k} |-> m[x]]

\* func (d Dictionary) Add(word, definition string)
DictAdd(word, def) ==
    /\ dictpc = "ready"
    /\ Len(dictLog) < MaxOps
    /\ IF dictNil
          \* assignment to entry in nil map
          THEN /\ dictpc' = "panicked"
               /\ UNCHANGED <<dictionary, dictLog>>
          ELSE /\ dictionary' = MapPut(dictionary, word, def)
               /\ dictLog' = Append(dictLog, <<"Add", word, def>>)
               /\ UNCHANGED dictpc
    /\ UNCHANGED <<dictNil, searched, searchedAt, definition, searchErr>>
    /\ UNCHANGED dictFrame

\* func (d Dictionary) Delete(word string)
DictDelete(word) ==
    /\ dictpc = "ready"
    /\ Len(dictLog) < MaxOps
    /\ dictionary' = MapDelete(dictionary, word)
    /\ dictLog' = Append(dictLog, <<"Delete", word, "">>)
    /\ UNCHANGED <<dictNil, dictpc, searched, searchedAt, definition, searchErr>>
    /\ UNCHANGED dictFrame

\* func (d Dictionary) Search(word string) (string, error)
DictSearch(word) ==
    /\ dictpc = "ready"
    /\ searched' = word
    /\ searchedAt' = Len(dictLog)
    /\ LET ok == word \in DOMAIN dictionary IN
       IF ~ok
          THEN /\ definition' = ""
               /\ searchErr' = ErrNotFound
          ELSE /\ definition' = dictionary[word]
               /\ searchErr' = Nil
    /\ UNCHANGED <<dictionary, dictNil, dictpc, dictLog>>
    /\ UNCHANGED dictFrame

(***************************************************************************)
(* Workers and collector: one goroutine per url sends result{url, wc(url)} *)
(* on resultChannel, the main routine receives len(urls) results and       *)
(* writes them to the map.  The url of a goroutine is the one of its       *)
(* iteration (the loop variable is per iteration since Go 1.22, which the  *)
(* repository's `for range n` loops require); a send blocks until the      *)
(* main routine is ready to receive.                                       *)
(***************************************************************************)
Workers == 1..MaxUrls
\* the main routine, among the routines
Main == 0
NoResult == [string |-> "", bool |-> FALSE]

InitWorkers ==
    /\ urls \in SeqsUpTo(URLs, MaxUrls)
    /\ wc \in [URLs -> BOOLEAN]
    /\ mpc = "start"
    /\ started = 0
    /\ wkpc = [w \in Workers |-> "none"]
    /\ sent = [w \in Workers |-> 0]
    /\ received = 0
    /\ collected = 0
    /\ lastResult = NoResult
    /\ results = <<>>
    /\ writing = {}

IdleWorkers ==
    /\ urls = <<>>
    /\ wc = [u \in URLs |-> FALSE]
    /\ mpc = "idle"
    /\ started = 0
    /\ wkpc = [w \in Workers |-> "none"]
    /\ sent = [w \in Workers |-> 0]
    /\ received = 0
    /\ collected = 0
    /\ lastResult = NoResult
    /\ results = <<>>
    /\ writing = {}

\* for _, url := range urls { go func() { ... }() }
StartWorker ==
    /\ mpc = "start"
    /\ IF started < Len(urls)
          THEN /\ started' = started + 1
               /\ wkpc' = [wkpc EXCEPT ![started + 1] = "wc"]
               /\ UNCHANGED mpc
          ELSE /\ mpc' = "collect"
               /\ UNCHANGED <<started, wkpc>>
    /\ UNCHANGED <<urls, wc, sent, received, collected, lastResult, results, writing>>
    /\ UNCHANGED workersFrame

\* a worker that writes results[url] itself
WorkerWritesMap == "map"

\* where a worker's result goes: resultChannel <- result{url, wc(url)}
WorkerDelivery == "channel"

\* the worker evaluates result{url, wc(url)}
WorkerWc(w) ==
    /\ wkpc[w] = "wc"
    /\ IF WorkerDelivery = "channel"
          THEN /\ wkpc' = [wkpc EXCEPT ![w] = "send"]
               /\ UNCHANGED writing
          ELSE /\ wkpc' = [wkpc EXCEPT ![w] = "write"]
               /\ writing' = writing \cup {w}
    /\ UNCHANGED <<urls, wc, mpc, started, sent, received, collected, lastResult, results>>
    /\ UNCHANGED workersFrame

\* a collecting loop that stops one result short
CollectorStopsEarly(n) == n < Len(urls) - 1

\* i < len(urls)
CollectorContinues(n) == n < Len(urls)

\* for i := 0; i < len(urls); i++ : the test
CollectTest ==
    /\ mpc = "collect"
    /\ mpc' = IF CollectorContinues(collected) THEN "recv" ELSE "end"
    /\ UNCHANGED <<urls, wc, started, wkpc, sent, received, collected, lastResult, results, writing>>
    /\ UNCHANGED workersFrame

\* resultChannel <- result{...} of worker w meets r := <-resultChannel
Handover(w) ==
    /\ mpc = "recv"
    /\ wkpc[w] = "send"
    /\ lastResult' = [string |-> urls[w], bool |-> wc[urls[w]]]
    /\ wkpc' = [wkpc EXCEPT ![w] = "done"]
    /\ sent' = [sent EXCEPT ![w] = @ + 1]
    /\ received' = received + 1
    /\ mpc' = "write"
    /\ UNCHANGED <<urls, wc, started, collected, results, writing>>
    /\ UNCHANGED workersFrame

\* results[r.string] = r.bool : the write begins
WriteBegin ==
    /\ mpc = "write"
    /\ writing' = writing \cup {Main}
    /\ mpc' = "writing"
    /\ UNCHANGED <<urls, wc, started, wkpc, sent, received, collected, lastResult, results>>
    /\ UNCHANGED workersFrame

\* the write is done; i++
WriteEnd ==
    /\ mpc = "writing"
    /\ results' = MapPut(results, lastResult.string, lastResult.bool)
    /\ writing' = writing \ {Main}
    /\ collected' = collected + 1
    /\ mpc' = "collect"
    /\ UNCHANGED <<urls, wc, started, wkpc, sent, received, lastResult>>
    /\ UNCHANGED workersFrame

(***************************************************************************)
(* Mellow(name, language): a Go string is the sequence of its characters,  *)
(* + is concatenation                                                      *)
(***************************************************************************)
englishHelloPrefix == <<"H", "e", "y">>
spanishHelloPrefix == <<"H", "o", "l", "a">>
frenchHelloPrefix == <<"B", "o", "n", "j", "o", "u", "r">>
spanish == "Spanish"
french == "French"
World == <<"W", "o", "r", "l", "d">>
Carol == <<"C", "a", "r", "o", "l">>
Elodie == <<"E", "l", "o", "d", "i", "e">>

Names == SeqsUpTo({"C", "a"}, MaxNameLen) \cup {World, Carol, Elodie}
Languages == {"English", spanish, french, "", "spanish", "German"}

\* a switch with no case for French
greetingPrefixNoFrench(language) ==
    CASE language = spanish -> spanishHelloPrefix
      [] OTHER -> englishHelloPrefix

\* func greetingPrefix(language string) (prefix string)
greetingPrefix(language) ==
    CASE language = spanish -> spanishHelloPrefix
      [] language = french -> frenchHelloPrefix
      [] OTHER -> englishHelloPrefix

\* a Mellow that greets the name as given
NameAsGiven(name) == name

\* if name == "" { name = "World" }
NameOrWorld(name) == IF name = <<>> THEN World ELSE name

\* func Mellow(name string, language string) string
Mellow(name, language) == greetingPrefix(language) \o NameOrWorld(name)

InitHello ==
    /\ helloName \in Names
    /\ helloLanguage \in Languages
    /\ hellopc = "call"
    /\ greeting = <<>>

IdleHello ==
    /\ helloName = <<>>
    /\ helloLanguage = ""
    /\ hellopc = "idle"
    /\ greeting = <<>>

\* got := Mellow(name, language)
MellowCall ==
    /\ hellopc = "call"
    /\ greeting' = Mellow(helloName, helloLanguage)
    /\ hellopc' = "returned"
    /\ UNCHANGED <<helloName, helloLanguage>>
    /\ UNCHANGED helloFrame

(***************************************************************************)
(* Sum and SumAll over int, which wraps around on overflow                 *)
(***************************************************************************)
MaxInt == 2 ^ (IntBits - 1) - 1
MinInt == -(2 ^ (IntBits - 1))

\* the int an arithmetic result becomes
Wrap(x) == ((x - MinInt) % (2 ^ IntBits)) + MinInt

\* the elements the slices are made of
Elems == {-1, 1, MaxInt}
Slices == SeqsUpTo(Elems, MaxLen)

RECURSIVE SumLoop(_, _, _)
\* for _, number := range numbers { sum += number }, from element k on
SumLoop(numbers, k, sum) ==
    IF k > Len(numbers) THEN sum
    ELSE SumLoop(numbers, k + 1, Wrap(sum + numbers[k]))

\* a Sum that leaves out the first number
SumOfTail(numbers) == SumLoop(numbers, 2, 0)

\* func Sum(numbers []int) int
Sum(numbers) == SumLoop(numbers, 1, 0)

InitSum ==
    /\ numbersTosum \in SeqsUpTo(Slices, MaxSlices)
    /\ sums = <<>>
    /\ sumIdx = 0
    /\ sumpc = "loop"
    /\ sumCallee \in {"SumAll", "SumAllTails"}

IdleSum ==
    /\ numbersTosum = <<>>
    /\ sums = <<>>
    /\ sumIdx = 0
    /\ sumpc = "idle"
    /\ sumCallee = ""

\* one turn of for _, numbers := range numbersTosum
SumAllAppend ==
    /\ sumpc = "loop" /\ sumCallee = "SumAll"
    /\ sumIdx < Len(numbersTosum)
    /\ sums' = Append(sums, Sum(numbersTosum[sumIdx + 1]))
    /\ sumIdx' = sumIdx + 1
    /\ UNCHANGED <<numbersTosum, sumpc, sumCallee>>
    /\ UNCHANGED sumFrame

\* return sums
SumAllReturn ==
    /\ sumpc = "loop" /\ sumCallee = "SumAll"
    /\ sumIdx = Len(numbersTosum)
    /\ sumpc' = "returned"
    /\ UNCHANGED <<numbersTosum, sums, sumIdx, sumCallee>>
    /\ UNCHANGED sumFrame

\* numbers[1:] is within bounds: 1 <= len(numbers)
TailInBounds(numbers) == 1 <= Len(numbers)

\* one turn of the loop of SumAllTails: tail := numbers[1:], then the append
SumAllTailsAppend ==
    /\ sumpc = "loop" /\ sumCallee = "SumAllTails"
    /\ sumIdx < Len(numbersTosum)
    /\ LET numbers == numbersTosum[sumIdx + 1] IN
       IF ~TailInBounds(numbers)
          \* slice bounds out of range [1:0]
          THEN /\ sumpc' = "panicked"
               /\ UNCHANGED <<sums, sumIdx>>
          ELSE /\ sums' = Append(sums, Sum(SubSeq(numbers, 2, Len(numbers))))
               /\ sumIdx' = sumIdx + 1
               /\ UNCHANGED sumpc
    /\ UNCHANGED <<numbersTosum, sumCallee>>
    /\ UNCHANGED sumFrame

\* return sums, of SumAllTails
SumAllTailsReturn ==
    /\ sumpc = "loop" /\ sumCallee = "SumAllTails"
    /\ sumIdx = Len(numbersTosum)
    /\ sumpc' = "returned"
    /\ UNCHANGED <<numbersTosum, sums, sumIdx, sumCallee>>
    /\ UNCHANGED sumFrame

\* the programs modelled further down the list, not running
IdleLater == IdleSchema /\ IdleDict /\ IdleWorkers /\ IdleHello /\ IdleSum

\* the programs other than sync, select and context, not running
IdleRest == IdleChat /\ IdleAgent /\ IdleRegistry

(***************************************************************************)
(* SpecSync: the two programs of sync_test.go, side by side                *)
(***************************************************************************)
InitSync == InitCounter /\ InitCountdown /\ IdleRacer /\ IdleContext /\ IdleRest /\ IdleLater

NextSync ==
    \/ TestWgAdd
    \/ TestGo
    \/ \E g \in Goroutines : IncLock(g)
    \/ \E g \in Goroutines : IncLoad(g)
    \/ \E g \in Goroutines : IncStore(g)
    \/ \E g \in Goroutines : IncUnlock(g)
    \/ \E g \in Goroutines : GoWgDone(g)
    \/ TestWgWait
    \/ TestAssert
    \/ CountdownStart
    \/ CountdownTest
    \/ CountdownWriteNumber
    \/ CountdownSleep
    \/ CountdownFinal

SpecSync == InitSync /\ [][NextSync]_vars

\* the steps of the test's own routine and of one of its goroutines
TestStep == TestWgAdd \/ TestGo \/ TestWgWait \/ TestAssert
GoroutineStep(g) ==
    IncLock(g) \/ IncLoad(g) \/ IncStore(g) \/ IncUnlock(g) \/ GoWgDone(g)

\* fair scheduling: a routine that can run is eventually run
SpecSyncFair ==
    SpecSync /\ WF_vars(TestStep) /\ \A g \in Goroutines : WF_vars(GoroutineStep(g))

(***************************************************************************)
(* Claims about the Counter                                                *)
(***************************************************************************)
\* C1: when each of the N goroutines has called Inc once and all have
\* finished, the counter's value is N, and that is what Value() returns to
\* the test after wg.Wait(): no increment is lost, in any interleaving.
NoLostIncrement ==
    /\ (\A g \in Goroutines : gpc[g] = "end") => value = WantedCount
    /\ tpc = "end" => got = WantedCount

\* the test has read the counter after all goroutines finished
NoLostIncrementWitness ==
    /\ tpc = "end"
    /\ \A g \in Goroutines : gpc[g] = "end"
    /\ got = WantedCount

\* goroutine g is between c.mu.Lock() and the deferred c.mu.Unlock()
BetweenLockAndUnlock(g) == gpc[g] \in {"load", "store", "unlock"}

\* C13: at most one goroutine at a time is between Lock and Unlock of the
\* Counter's mutex, and it is the one holding the mutex; the value a
\* goroutine read for value++ is still the counter's value when it writes,
\* so no other Inc's read-increment-write falls inside its own.
MutexExclusion ==
    /\ \A g, h \in Goroutines :
          (BetweenLockAndUnlock(g) /\ BetweenLockAndUnlock(h)) => g = h
    /\ \A g \in Goroutines : BetweenLockAndUnlock(g) <=> mu = g
    /\ \A g \in Goroutines : gpc[g] = "store" => greg[g] = value

\* a goroutine is inside value++ after another one's increment, while a
\* third party waits at Lock
MutexExclusionWitness ==
    \E g, h \in Goroutines :
        /\ g # h
        /\ gpc[g] = "store" /\ mu = g /\ value >= 1
        /\ gpc[h] = "lock"

\* the goroutines that have called wg.Done()
CalledDone == {g \in Goroutines : gpc[g] = "end"}
\* the goroutines whose Inc has performed its increment
Incremented == {g \in Goroutines : gpc[g] \in {"unlock", "done", "end"}}

\* C14: wg.Wait() returns only after all wantedCount goroutines have called
\* wg.Done(); a goroutine has called Done only after its Inc returned (its
\* increment is in value and it no longer holds the mutex); hence Value()
\* is read after every increment.
WaitAfterEveryDone ==
    /\ tpc # "add" => wg = WantedCount - Cardinality(CalledDone)
    /\ tpc \in {"assert", "end"} => CalledDone = Goroutines
    /\ CalledDone \subseteq Incremented
    /\ \A g \in CalledDone : mu # g
    /\ value = Cardinality(Incremented)
    /\ got # -1 => (Incremented = Goroutines /\ got = WantedCount)

\* Wait has returned and the test has read the counter
WaitAfterEveryDoneWitness ==
    /\ tpc = "end" /\ wg = 0
    /\ CalledDone = Goroutines
    /\ got = value

(***************************************************************************)
(* Claims about Countdown                                                  *)
(***************************************************************************)
CountdownOrder == <<write, sleep, write, sleep, write, sleep, write>>

\* C4: Countdown performs exactly write, sleep, write, sleep, write, sleep,
\* write: at every moment the recorded calls are a prefix of that sequence
\* (so never a sleep first, never two writes or two sleeps in a row), and
\* when Countdown has returned they are the whole sequence (no sleep after
\* the final word).
CountdownSequence ==
    /\ Len(Calls) <= Len(CountdownOrder)
    /\ Calls = SubSeq(CountdownOrder, 1, Len(Calls))
    /\ cpc = "done" => Calls = CountdownOrder

\* Countdown has returned after writing the final word
CountdownSequenceWitness == cpc = "done" /\ Len(Calls) = 7 /\ Calls[7] = write

(***************************************************************************)
(* SpecRacer: one call of Racer, its pings and its timer                   *)
(***************************************************************************)
InitRacerSpec == InitRacer /\ InitCounter /\ InitCountdown /\ IdleContext /\ IdleRest /\ IdleLater

NextRacer ==
    \/ \E k \in 1..2 : RacerPing(k)
    \/ RacerAfter
    \/ \E i \in 1..Len(pings) : PingGetReturns(i)
    \/ \E i \in 1..Len(pings) : PingClose(i)
    \/ TimerFires
    \/ \E k \in 1..2 : RacerSelectPing(k)
    \/ RacerSelectTimeout
    \/ Tick

SpecRacer == InitRacerSpec /\ [][NextRacer]_vars

\* each ping goroutine that can close its channel is eventually scheduled
SpecRacerFair == SpecRacer /\ \A i \in 1..2 : WF_vars(i <= Len(pings) /\ PingClose(i))

(***************************************************************************)
(* Claims about Racer                                                      *)
(***************************************************************************)
\* a is the first URL to respond, and responds before the timeout elapses
AFirst == delay[ra] < delay[rb] /\ delay[ra] < timout

\* b is the first URL to respond, and responds before the timeout elapses
BFirst == delay[rb] < delay[ra] /\ delay[rb] < timout

\* C2: Racer returns (a, nil) when a is the first URL to respond and (b, nil)
\* when b is the first URL to respond, the first response arriving before
\* the timeout elapses.
RacerReturnsFirstResponder ==
    rpc = "returned" =>
        /\ AFirst => (winner = ra /\ errror = Nil)
        /\ BFirst => (winner = rb /\ errror = Nil)

\* both URLs take longer than the timeout (a response at the very instant of
\* the timeout is a race of the select, which the claim does not cover)
NeitherInTime == delay[ra] > timout /\ delay[rb] > timout

InitContextSpec == InitContext /\ InitCounter /\ InitCountdown /\ IdleRacer /\ IdleRest /\ IdleLater

NextContext ==
    \/ Cancel
    \/ HandlerCallsFetch
    \/ FetchGo
    \/ WorkerLoop
    \/ WorkerSleep
    \/ WorkerSend
    \/ FetchSelectDone
    \/ FetchSelectData
    \/ HandlerCheck
    \/ HandlerWrite

SpecContext == InitContextSpec /\ [][NextContext]_vars

\* the steps of the goroutine Fetch starts
WorkerStep == WorkerLoop \/ WorkerSleep \/ WorkerSend

\* the worker goroutine is eventually run whenever it can run
SpecContextFair == SpecContext /\ WF_vars(WorkerStep)

\* Fetch has returned to the handler
FetchReturned == hpc \in {"check", "write", "done"}

\* the context was cancelled before the worker delivered its result
CancelledBeforeDelivery == cancelPhase \in {"early", "late"}

InitChatSpec ==
    InitChat /\ InitCounter /\ InitCountdown /\ IdleRacer /\ IdleContext /\ IdleAgent
    /\ IdleRegistry /\ IdleLater

NextChat ==
    \/ \E req \in Requests : ChatCall(req)
    \/ \E ok \in BOOLEAN : ChatMarshal(ok)
    \/ \E ok \in BOOLEAN : ChatNewRequest(ok)
    \/ \E st \in Statuses \cup {0} : ChatDo(st)
    \/ ChatCheckStatus
    \/ \E ok \in BOOLEAN : ChatDecode(ok)

SpecChat == InitChatSpec /\ [][NextChat]_vars

\* C7: CreateChat returns a nil response and a non-nil error whenever the
\* status is not 200 or the body fails to decode, and likewise when
\* marshalling, request creation or the transport fails; it returns a
\* non-nil response with a nil error only after a 200 status whose body
\* decoded (and never a response together with an error, nor neither).
ChatErrorsReturned ==
    kpc = "returned" =>
        /\ (kfail # "none" \/ kstatus # 200 \/ kdecoded # "ok")
              => (kresp = Nil /\ kerr # Nil)
        /\ kresp # Nil => (kerr = Nil /\ kfail = "none" /\ kstatus = 200 /\ kdecoded = "ok")
        /\ kerr = Nil => kresp # Nil

\* CreateChat returned the error of a status that is neither 200 nor an
\* error class
ChatErrorsReturnedWitness ==
    kpc = "returned" /\ kstatus = 201 /\ kresp = Nil /\ kerr = "unexpected status code"

\* C8: one call of CreateChat issues at most one HTTP request (so all calls
\* together at most one each); none before Do, and when it has returned
\* after a transport error, a non-200 status or a decode failure (or a
\* success) it has sent exactly one.
ChatSendsOnce ==
    /\ ksent <= 1
    /\ ktotal <= kcalls
    /\ kpc \in {"marshal", "newreq", "do"} => ksent = 0
    /\ (kpc = "returned" /\ (kfail = "transport" \/ kstatus # 0)) => ksent = 1

\* a second call failed in the transport, having sent one request
ChatSendsOnceWitness ==
    kpc = "returned" /\ kfail = "transport" /\ ksent = 1 /\ kcalls = 2 /\ ktotal = 2

(***************************************************************************)
(* SpecAgent: agent.New with a list of options, then calls of Run          *)
(***************************************************************************)
InitAgentSpec ==
    InitAgent /\ InitCounter /\ InitCountdown /\ IdleRacer /\ IdleContext /\ IdleChat
    /\ IdleRegistry /\ IdleLater

NextAgent ==
    \/ NewDefaults
    \/ NewApplyOption
    \/ NewInitHistory
    \/ \E msg \in UserMessages : Run(msg)

SpecAgent == InitAgentSpec /\ [][NextAgent]_vars

\* C9: Run(ctx, usrMsg) appends the user message to History, sends that
\* History to the client, and then appends the assistant's reply: after a
\* Run, History is what it was plus the user message and an assistant
\* message, and the client was handed the History ending in the user message.
RunAppendSendAppend ==
    runs > 0 =>
        /\ Len(History) = Len(histBefore) + 2
        /\ SubSeq(History, 1, Len(histBefore)) = histBefore
        /\ History[Len(histBefore) + 1] = Message("user", usrMsg)
        /\ History[Len(histBefore) + 2].Role = "assistant"
        /\ Len(sends) = runs
        /\ sends[runs] = Append(histBefore, Message("user", usrMsg))

(***************************************************************************)
(* SpecRegistry: calls of Register on one Registry                         *)
(***************************************************************************)
InitRegistrySpec ==
    InitRegistry /\ InitCounter /\ InitCountdown /\ IdleRacer /\ IdleContext /\ IdleChat
    /\ IdleAgent /\ IdleLater

NextRegistry ==
    \E name \in ToolNames, description \in Descriptions, function \in Values :
        Register(name, description, function)

SpecRegistry == InitRegistrySpec /\ [][NextRegistry]_vars

\* the last Register call returned nil for a function of exactly one argument
RegisterSucceeded ==
    /\ regpc = "ready" /\ regCall # NoCall /\ regErr = Nil
    /\ regCall.function.kind = "func" /\ Len(regCall.function.ins) = 1

\* the fields of struct type t that the schema includes: those with a json
\* tag other than "" and "-"
JsonTagged(t) ==
    {i \in 1..Len(TypeOf[t].fields) :
        TypeOf[t].fields[i].tag # <<>> /\ TypeOf[t].fields[i].tag # <<"-">>}

\* C10: after Register(name, description, fn) succeeded for an fn of exactly
\* one argument, the registry holds under name a Tool with that name and
\* description, ArgsType fn's parameter type and Schema GenerateSchema of it;
\* for a struct argument the schema has a "properties" map with an entry
\* for each json-tagged field, under the name part of its tag.
RegisterStoresTool ==
    RegisterSucceeded =>
        LET name == regCall.name
            argType == regCall.function.ins[1]
        IN  /\ name \in DOMAIN tools
            /\ tools[name].Name = name
            /\ tools[name].Description = regCall.description
            /\ tools[name].Func = regCall.function.id
            /\ tools[name].ArgsType = argType
            /\ tools[name].Schema = GenerateSchema(argType)
            /\ TypeOf[argType].kind = "struct" =>
                  /\ "properties" \in DOMAIN tools[name].Schema
                  /\ \A i \in JsonTagged(argType) :
                        TagName(TypeOf[argType].fields[i].tag)
                            \in DOMAIN tools[name].Schema["properties"]

\* the test's registration: get_weather holds a schema with a "city" property
RegisterStoresToolWitness ==
    /\ RegisterSucceeded
    /\ regCall.name = "get_weather" /\ regCall.function.id = "GetWeather"
    /\ "get_weather" \in DOMAIN tools
    /\ <<"city">> \in DOMAIN tools["get_weather"].Schema["properties"]
    /\ <<"days">> \in DOMAIN tools["get_weather"].Schema["properties"]

(***************************************************************************)
(* SpecSchema: one call of GenerateSchema on a type of the catalogue       *)
(***************************************************************************)
InitSchemaSpec ==
    InitSchema /\ InitCounter /\ InitCountdown /\ IdleRacer /\ IdleContext /\ IdleRest
    /\ IdleDict /\ IdleWorkers /\ IdleHello /\ IdleSum

NextSchema ==
    \/ GenEnter
    \/ GenField
    \/ GenFieldDone
    \/ GenReturn

SpecSchema == InitSchemaSpec /\ [][NextSchema]_vars

\* the call keeps running while it can: it is the only routine
SpecSchemaFair == SpecSchema /\ WF_vars(NextSchema)

\* the outermost call was given a struct type (or a pointer to one)
StructInput == genpc # "idle" /\ TypeOf[Deref(schemaInput)].kind = "struct"

\* the schema of a field's type, plus "description" when the tag is present
FieldEntry(field) ==
    IF field.desc # ""
       THEN MapPut(GenerateSchema(field.type), "description", field.desc)
       ELSE GenerateSchema(field.type)

\* the properties map the claim describes, checked against a returned schema
PropertiesAsTagged(t, schema) ==
    /\ "type" \in DOMAIN schema /\ schema["type"] = "object"
    /\ "properties" \in DOMAIN schema
    /\ DOMAIN schema["properties"] =
          {TagName(TypeOf[t].fields[i].tag) : i \in JsonTagged(t)}
    /\ \A i \in JsonTagged(t) :
          schema["properties"][TagName(TypeOf[t].fields[i].tag)]
              = FieldEntry(TypeOf[t].fields[i])

\* C11: for a struct type GenerateSchema returns an object schema whose
\* "properties" map has a key for exactly the fields with a json tag other
\* than "" and "-", under the name part of the tag, each mapped to the schema
\* of the field's type, plus "description" when a description tag is present.
GenerateSchemaProperties ==
    StructInput =>
        /\ genpc # "panicked"
        /\ genpc = "returned" => PropertiesAsTagged(Deref(schemaInput), callResult)

\* the same, for the calls that return and the structs whose json names differ
DistinctNames(t) ==
    \A i, j \in JsonTagged(t) :
        TagName(TypeOf[t].fields[i].tag) = TagName(TypeOf[t].fields[j].tag) => i = j

GenerateSchemaPropertiesWhenReturned ==
    (StructInput /\ genpc = "returned" /\ DistinctNames(Deref(schemaInput)))
        => PropertiesAsTagged(Deref(schemaInput), callResult)

(***************************************************************************)
(* The graph of struct types GenerateSchema walks                          *)
(***************************************************************************)
StructNames == {t \in TypeNames : TypeOf[t].kind = "struct"}

RECURSIVE FullDeref(_)
\* t with every pointer level removed
FullDeref(t) == IF TypeOf[t].kind = "ptr" THEN FullDeref(TypeOf[t].elem) ELSE t

\* from a struct to the struct types of its json-tagged fields, following
\* pointers however deep
PointerEdges ==
    {e \in StructNames \X StructNames :
        \E i \in JsonTagged(e[1]) : FullDeref(TypeOf[e[1]].fields[i].type) = e[2]}

\* the same, removing at most one pointer level
OneDerefEdges ==
    {e \in StructNames \X StructNames :
        \E i \in JsonTagged(e[1]) : Deref(TypeOf[e[1]].fields[i].type) = e[2]}

Successors(S, E) == {e[2] : e \in {x \in E : x[1] \in S}}

RECURSIVE ReachFrom(_, _, _)
\* what n steps along E reach from S, S included
ReachFrom(S, E, n) ==
    IF n = 0 THEN S ELSE ReachFrom(S \cup Successors(S, E), E, n - 1)

\* no struct reachable from start reaches itself
Acyclic(start, E) ==
    LET n == Cardinality(StructNames)
        R == ReachFrom(start \cap StructNames, E, n)
    IN  \A u \in R : u \notin ReachFrom(Successors({u}, E), E, n)

PointerAcyclic == Acyclic({FullDeref(schemaInput)}, PointerEdges)
OneDerefAcyclic == Acyclic({Deref(schemaInput)}, OneDerefEdges)

\* the call is over: it returned or it panicked
Ended == genpc \in {"returned", "panicked"}

\* the recursion has reached the deepest stack followed and calls again
RunsToBound ==
    /\ Len(callStack) = MaxDepth
    /\ callArg # NoType /\ TypeOf[Deref(callArg)].kind = "struct"

\* C12: GenerateSchema has no cycle detection: it terminates if and only if
\* the graph of json-tagged struct field types reachable from the input
\* type, following pointers, is acyclic.
TerminatesIffPointerAcyclic ==
    /\ [](Ended => PointerAcyclic)
    /\ [](RunsToBound => ~PointerAcyclic)
    /\ PointerAcyclic ~> Ended

\* C12, amended: with the graph that removes at most one pointer level per
\* field, as the code does: a call on an acyclic graph ends; a call that
\* returns had an acyclic graph; a call on a cyclic graph recurses to any
\* depth unless a field visited earlier panics.
TerminatesIffOneDerefAcyclic ==
    /\ [](genpc = "returned" => OneDerefAcyclic)
    /\ [](RunsToBound => ~OneDerefAcyclic)
    /\ OneDerefAcyclic ~> Ended
    /\ ~OneDerefAcyclic ~> (RunsToBound \/ genpc = "panicked")

\* the linked list recursing through its json-tagged pointer to the bound
TerminatesIffOneDerefAcyclicWitness ==
    /\ schemaInput = "Node" /\ ~OneDerefAcyclic
    /\ RunsToBound /\ callArg = "*Node"

(***************************************************************************)
(* SpecDict: Add, Delete and Search on one Dictionary                      *)
(***************************************************************************)
InitDictSpec ==
    InitDict /\ InitCounter /\ InitCountdown /\ IdleRacer /\ IdleContext /\ IdleRest
    /\ IdleSchema /\ IdleWorkers /\ IdleHello /\ IdleSum

NextDict ==
    \/ \E word \in Words, def \in Definitions : DictAdd(word, def)
    \/ \E word \in Words : DictDelete(word)
    \/ \E word \in Words : DictSearch(word)

SpecDict == InitDictSpec /\ [][NextDict]_vars

RECURSIVE LastWrite(_, _, _)
\* the latest call on word w among the first n of the log, or none
LastWrite(log, n, w) ==
    IF n = 0 THEN <<"none", w, "">>
    ELSE IF log[n][2] = w THEN log[n]
    ELSE LastWrite(log, n - 1, w)

\* C15: after any sequence of Add and Delete, Search(w) returns (d, nil)
\* where d is the definition of the most recent Add(w, d) not followed by a
\* Delete(w); when there is no such Add it returns ("", ErrNotFound), the
\* one sentinel value.
SearchFindsLatestAdd ==
    (dictpc = "ready" /\ searched # "") =>
        LET last == LastWrite(dictLog, searchedAt, searched) IN
        IF last[1] = "Add"
           THEN definition = last[3] /\ searchErr = Nil
           ELSE definition = "" /\ searchErr = ErrNotFound

\* a word added twice is found with the later definition, and a word
\* deleted after its Add is not found
SearchFindsLatestAddWitness ==
    /\ Len(dictLog) = 3 /\ searchedAt = 3
    /\ dictLog[1][1] = "Add" /\ dictLog[1][2] = "test"
    /\ dictLog[2][1] = "Add" /\ dictLog[2][2] = "test" /\ dictLog[2][3] # dictLog[1][3]
    /\ dictLog[3][1] = "Delete" /\ dictLog[3][2] = "go"
    /\ searched = "test" /\ definition = dictLog[2][3] /\ searchErr = Nil

(***************************************************************************)
(* SpecWorkers: the workers and the collecting main routine                *)
(***************************************************************************)
InitWorkersSpec ==
    InitWorkers /\ InitCounter /\ InitCountdown /\ IdleRacer /\ IdleContext /\ IdleRest
    /\ IdleSchema /\ IdleDict /\ IdleHello /\ IdleSum

NextWorkers ==
    \/ StartWorker
    \/ \E w \in Workers : WorkerWc(w)
    \/ CollectTest
    \/ \E w \in Workers : Handover(w)
    \/ WriteBegin
    \/ WriteEnd

SpecWorkers == InitWorkersSpec /\ [][NextWorkers]_vars

\* every routine that can take a step eventually takes one
SpecWorkersFair == SpecWorkers /\ WF_vars(NextWorkers)

\* C16: every write to the results map is performed by the main routine,
\* one at a time: the routines with a write in progress are never more than
\* the main routine alone, and the map changes only by a write of the main
\* routine.
MapWrittenByCollectorOnly ==
    /\ [](writing \subseteq {Main})
    /\ [][results' # results => (mpc = "writing" /\ writing = {Main})]_vars

\* the main routine writes the map while a worker waits to send
MapWrittenByCollectorOnlyWitness ==
    /\ writing = {Main} /\ mpc = "writing"
    /\ \E w \in Workers : wkpc[w] = "send"

\* C17: each of the len(urls) workers sends exactly one result and the
\* collector receives exactly len(urls); the collecting loop terminates, and
\* then no worker is blocked on its send and the map holds the result of
\* every url.
EveryResultCollected ==
    /\ [](\A w \in Workers : sent[w] <= 1)
    /\ [](mpc = "end" =>
            /\ received = Len(urls)
            /\ \A w \in 1..Len(urls) : sent[w] = 1 /\ wkpc[w] = "done"
            /\ \A k \in 1..Len(urls) :
                  urls[k] \in DOMAIN results /\ results[urls[k]] = wc[urls[k]])
    /\ <>(mpc = "end")

\* two different urls collected
EveryResultCollectedWitness ==
    /\ mpc = "end" /\ Len(urls) >= 2 /\ urls[1] # urls[2]
    /\ received = Len(urls)
    /\ DOMAIN results = {urls[k] : k \in 1..Len(urls)}

(***************************************************************************)
(* SpecHello: one call of Mellow                                           *)
(***************************************************************************)
InitHelloSpec ==
    InitHello /\ InitCounter /\ InitCountdown /\ IdleRacer /\ IdleContext /\ IdleRest
    /\ IdleSchema /\ IdleDict /\ IdleWorkers /\ IdleSum

NextHello == MellowCall

SpecHello == InitHelloSpec /\ [][NextHello]_vars

\* the prefix the claims give for a language
PrefixFor(language) ==
    IF language = "Spanish" THEN <<"H", "o", "l", "a">>
    ELSE IF language = "French" THEN <<"B", "o", "n", "j", "o", "u", "r">>
    ELSE <<"H", "e", "y">>

\* s is p immediately followed by n
PrefixThenName(s, p, n) ==
    /\ Len(s) = Len(p) + Len(n)
    /\ SubSeq(s, 1, Len(p)) = p
    /\ SubSeq(s, Len(p) + 1, Len(s)) = n

\* C18: with an empty name Mellow greets "World": for every language,
\* Mellow("", language) is what Mellow("World", language) is, "HeyWorld"
\* for English.
EmptyNameGreetsWorld ==
    (hellopc = "returned" /\ helloName = <<>>) =>
        /\ greeting = Mellow(World, helloLanguage)
        /\ PrefixThenName(greeting, PrefixFor(helloLanguage), <<"W", "o", "r", "l", "d">>)
        /\ helloLanguage = "English" => greeting = <<"H", "e", "y", "W", "o", "r", "l", "d">>

\* the test's call Mellow("", "English")
EmptyNameGreetsWorldWitness ==
    /\ hellopc = "returned" /\ helloName = <<>> /\ helloLanguage = "English"
    /\ greeting = <<"H", "e", "y", "W", "o", "r", "l", "d">>

\* C19: Mellow(name, language) returns the greeting prefix immediately
\* followed by the name, with no separator; the prefix is "Hola" for
\* "Spanish", "Bonjour" for "French" and "Hey" for every other language.
PrefixThenGivenName ==
    hellopc = "returned" =>
        PrefixThenName(greeting, PrefixFor(helloLanguage), helloName)

\* C19, amended: the same, the name being "World" when the name given is
\* empty.
PrefixThenNameOrWorld ==
    hellopc = "returned" =>
        PrefixThenName(greeting, PrefixFor(helloLanguage),
                       IF helloName = <<>> THEN <<"W", "o", "r", "l", "d">> ELSE helloName)

\* the test's call Mellow("Elodie", "Spanish") and an unrecognised language
PrefixThenNameOrWorldWitness ==
    /\ hellopc = "returned"
    /\ \/ /\ helloName = Elodie /\ helloLanguage = "Spanish"
          /\ greeting = <<"H", "o", "l", "a", "E", "l", "o", "d", "i", "e">>
       \/ /\ helloName = Carol /\ helloLanguage = "German"
          /\ greeting = <<"H", "e", "y", "C", "a", "r", "o", "l">>

(***************************************************************************)
(* SpecSum: one call of SumAll                                             *)
(***************************************************************************)
InitSumSpec ==
    InitSum /\ InitCounter /\ InitCountdown /\ IdleRacer /\ IdleContext /\ IdleRest
    /\ IdleSchema /\ IdleDict /\ IdleWorkers /\ IdleHello

NextSum ==
    \/ SumAllAppend
    \/ SumAllReturn
    \/ SumAllTailsAppend
    \/ SumAllTailsReturn

SpecSum == InitSumSpec /\ [][NextSum]_vars

RECURSIVE Total(_)
\* the sum of the elements of a sequence of integers, as a number
Total(seq) == IF seq = <<>> THEN 0 ELSE seq[Len(seq)] + Total(SubSeq(seq, 1, Len(seq) - 1))

\* C20: SumAll(s1, ..., sn) returns a slice of exactly n elements whose i-th
\* element is the sum of all elements of si, in argument order; an empty si
\* contributes 0.
SumAllSums ==
    (sumpc = "returned" /\ sumCallee = "SumAll") =>
        /\ Len(sums) = Len(numbersTosum)
        /\ \A k \in 1..Len(numbersTosum) : sums[k] = Total(numbersTosum[k])

\* C20, amended: the i-th element is the sum of the elements of si as int
\* arithmetic gives it: wrapped around into the range of int.
SumAllWrappedSums ==
    (sumpc = "returned" /\ sumCallee = "SumAll") =>
        /\ Len(sums) = Len(numbersTosum)
        /\ \A k \in 1..Len(numbersTosum) : sums[k] = Wrap(Total(numbersTosum[k]))
        /\ \A k \in 1..Len(numbersTosum) :
              Total(numbersTosum[k]) \in MinInt..MaxInt => sums[k] = Total(numbersTosum[k])

\* two slices, the first empty, the second with two numbers
SumAllWrappedSumsWitness ==
    /\ sumpc = "returned" /\ sumCallee = "SumAll"
    /\ numbersTosum = << <<>>, <<1, 1>> >>
    /\ sums = <<0, 2>>

\* a slice without its first element; the empty slice has none to leave out
AllButFirst(seq) == IF seq = <<>> THEN <<>> ELSE SubSeq(seq, 2, Len(seq))

\* C21: SumAllTails checks for empty input before slicing: for every
\* argument slice, an empty one included, it completes without a runtime
\* panic and contributes the sum (in int arithmetic) of all elements except
\* the first, 0 for an empty or one-element slice.
SumAllTailsNeverPanics ==
    sumCallee = "SumAllTails" =>
        /\ sumpc # "panicked"
        /\ sumpc = "returned" =>
              /\ Len(sums) = Len(numbersTosum)
              /\ \A k \in 1..Len(numbersTosum) :
                    sums[k] = Wrap(Total(AllButFirst(numbersTosum[k])))

\* the same for the calls whose slices all have an element
SumAllTailsOfNonEmpty ==
    (sumCallee = "SumAllTails" /\ \A k \in 1..Len(numbersTosum) : numbersTosum[k] # <<>>) =>
        /\ sumpc # "panicked"
        /\ sumpc = "returned" =>
              /\ Len(sums) = Len(numbersTosum)
              /\ \A k \in 1..Len(numbersTosum) :
                    sums[k] = Wrap(Total(AllButFirst(numbersTosum[k])))

(***************************************************************************)
(* Register on a value that is not a function of exactly one argument      *)
(***************************************************************************)
\* the last Register call was given something other than a function of
\* exactly one argument
RegisterGivenUnfit ==
    /\ regCall # NoCall
    /\ regCall.function.kind # "func" \/ Len(regCall.function.ins) # 1

\* C22: Register returns a non-nil error and leaves the tools map unchanged
\* when the supplied value is not a function or is a function that does not
\* take exactly one argument.
RegisterRejectsUnfit ==
    RegisterGivenUnfit =>
        /\ regpc = "ready"
        /\ regErr # Nil
        /\ tools = regCall.before

\* the same for the values that have a type (any value but the nil interface)
RegisterRejectsUnfitTyped ==
    (RegisterGivenUnfit /\ regCall.function.kind # "nil") =>
        /\ regpc = "ready"
        /\ regErr # Nil
        /\ tools = regCall.before

\* a tool is registered and a later call with a non-function is turned down
RegisterRejectsUnfitTypedWitness ==
    /\ RegisterGivenUnfit /\ regCall.function.kind = "int"
    /\ regErr # Nil /\ tools # <<>> /\ tools = regCall.before

(***************************************************************************)
(* "required" of a struct schema                                           *)
(***************************************************************************)
\* the options of a json tag: the atoms after its first comma
TagOptions(tag) ==
    IF TagHasComma(tag)
       THEN {tag[i] : i \in (Len(TagName(tag)) + 2)..Len(tag)} \ {","}
       ELSE {}

\* the names a returned object schema lists as required
RequiredNames(schema) == {schema.required[i] : i \in 1..Len(schema.required)}

\* the call returned an object schema for the struct type t
ReturnedStructSchema(t) ==
    /\ genpc = "returned"
    /\ t = Deref(schemaInput)
    /\ TypeOf[t].kind = "struct"

\* C23: in a struct schema produced by GenerateSchema, "required" lists
\* exactly the names of the json-tagged fields whose tag does not carry the
\* omitempty option: a field with the option is never required, a field
\* without it always is, and every required name is a key of "properties".
RequiredIsWithoutOmitempty ==
    \A t \in TypeNames :
        ReturnedStructSchema(t) =>
            LET fields == TypeOf[t].fields IN
            /\ \A i \in JsonTagged(t) :
                    TagName(fields[i].tag) \in RequiredNames(callResult)
                        <=> "omitempty" \notin TagOptions(fields[i].tag)
            /\ RequiredNames(callResult) \subseteq
                    {TagName(fields[i].tag) : i \in JsonTagged(t)}
            /\ RequiredNames(callResult) \subseteq DOMAIN callResult.properties

\* the same for the structs none of whose json names is the word omitempty
RequiredIsWithoutOmitemptyPlainNames ==
    \A t \in TypeNames :
        (/\ ReturnedStructSchema(t)
         /\ \A i \in JsonTagged(t) : TagName(TypeOf[t].fields[i].tag) # <<"omitempty">>) =>
            LET fields == TypeOf[t].fields IN
            /\ \A i \in JsonTagged(t) :
                    TagName(fields[i].tag) \in RequiredNames(callResult)
                        <=> "omitempty" \notin TagOptions(fields[i].tag)
            /\ RequiredNames(callResult) \subseteq
                    {TagName(fields[i].tag) : i \in JsonTagged(t)}
            /\ RequiredNames(callResult) \subseteq DOMAIN callResult.properties

(***************************************************************************)
(* The agent that New returns                                              *)
(***************************************************************************)
\* the positions in the options applied that hold an option of this kind
OfKind(kind) == {i \in 1..Len(applied) : applied[i].kind = kind}

\* the last option of this kind among those applied
LastOfKind(kind) == applied[CHOOSE i \in OfKind(kind) : \A j \in OfKind(kind) : j <= i]

\* the system messages of a history
SystemMessages(history) == {i \in 1..Len(history) : history[i].Role = "system"}

\* New has returned and Run has not been called
NewReturned == apc = "ready" /\ runs = 0

\* C24: after agent.New(client, model, opts...) the options have been applied
\* in argument order, a later option overriding an earlier one; MaxRetries is
\* 1 unless an option set it; History is exactly one system message carrying
\* SystemPrompt when the final SystemPrompt is non-empty and is empty
\* otherwise, so it never starts with more than one system message.
NewAppliesOptionsInOrder ==
    /\ NewReturned =>
        /\ opts = <<>>
        /\ SystemPrompt = IF OfKind("prompt") = {} THEN "" ELSE LastOfKind("prompt").prompt
        /\ MaxRetries = IF OfKind("retries") = {} THEN 1 ELSE LastOfKind("retries").n
        /\ History = IF SystemPrompt # ""
                        THEN <<Message("system", SystemPrompt)>>
                        ELSE <<>>
    /\ Cardinality(SystemMessages(History)) <= 1

\* New was given two prompts, the second of them empty, and no retry count:
\* the agent has no system prompt, an empty History and one retry
NewAppliesOptionsInOrderWitness ==
    /\ NewReturned
    /\ applied = <<WithSystemPrompts("be brief"), WithSystemPrompts("")>>
    /\ SystemPrompt = "" /\ History = <<>> /\ MaxRetries = 1

(***************************************************************************)
(* The channel of ping(url)                                                *)
(***************************************************************************)
\* C25: ping(url) returns its channel at once, the request still under way;
\* the channel is closed exactly once, and only after the GET has returned;
\* nothing is ever sent on it: a receive from it proceeds only by its close.
PingClosesOnceAfterGet ==
    /\ [][Len(pings') > Len(pings) =>
            /\ rpc' # rpc
            /\ pings'[Len(pings')].st = "getting"]_vars
    /\ [][\A i \in 1..Len(pings) :
            /\ i <= Len(pings')
            /\ (pings[i].st # "closed" /\ pings'[i].st = "closed") => pings[i].st = "got"
            /\ pings[i].st = "closed" => pings'[i] = pings[i]]_vars
    /\ [][(rpc = "select" /\ rpc' = "returned" /\ errror' = Nil) =>
            \E k \in 1..Len(pings) : pings[k].st = "closed"]_vars

\* one ping has closed its channel while the other's GET has only returned
PingClosesOnceAfterGetWitness ==
    /\ Len(pings) = 2
    /\ pings[1].st = "closed" /\ pings[2].st = "got"
    /\ now >= pings[1].start + delay[pings[1].url]

\* C28: after Racer has returned, with a winner or with the timeout error,
\* every ping goroutine it started still ends once its GET has returned: the
\* close of the channel does not wait for a reader.
PingEndsAfterRacerReturned ==
    \A i \in 1..2 :
        (rpc = "returned" /\ i <= Len(pings) /\ pings[i].st = "got")
            ~> (i <= Len(pings) /\ pings[i].st = "closed")

\* Racer timed out at tick 1; the GET returned at tick 2 and the ping closed
\* its channel, which nobody reads any more
PingEndsAfterRacerReturnedWitness ==
    /\ rpc = "returned" /\ errror = ErrTimedOut
    /\ timout = 1 /\ delay[ra] = 2 /\ now = 2
    /\ pings[1].st = "closed" /\ pings[2].st = "closed"

(***************************************************************************)
(* Inc releases the mutex; the counter test does not deadlock              *)
(***************************************************************************)
\* the goroutines whose call of Inc has returned
IncReturned == {g \in Goroutines : gpc[g] \in {"done", "end"}}

\* C26: Inc has released the mutex when it returns, so the mutex is free
\* whenever no goroutine is between Lock and Unlock; under fair scheduling
\* every one of the N concurrent Inc calls eventually returns and the test's
\* wg.Wait() eventually returns.
IncReleasesMutex ==
    /\ [](\A g \in IncReturned : mu # g)
    /\ []((\A g \in Goroutines : ~BetweenLockAndUnlock(g)) => mu = 0)
    /\ <>(IncReturned = Goroutines)
    /\ <>(tpc \in {"assert", "end"})

\* a goroutine waits in Lock while another holds the mutex and a third has
\* returned from Inc
IncReleasesMutexWitness ==
    \E g, h, k \in Goroutines :
        /\ gpc[g] = "lock" /\ mu = h /\ BetweenLockAndUnlock(h)
        /\ k \in IncReturned
        /\ tpc = "wait"

(***************************************************************************)
(* Fields whose type has no schema                                         *)
(***************************************************************************)
\* the kinds GenerateSchema has a schema for, after its one dereference
HasSchema(type) ==
    \/ PrimitiveSchema(TypeOf[Deref(type)].kind) # NilSchema
    \/ TypeOf[Deref(type)].kind = "struct"

\* in the returned schema of struct t every json-tagged field whose type
\* has no schema has a nil property schema
NilProperties(t) ==
    \A i \in JsonTagged(t) :
        LET field == TypeOf[t].fields[i] IN
        ~HasSchema(field.type) =>
            /\ TagName(field.tag) \in DOMAIN callResult.properties
            /\ callResult.properties[TagName(field.tag)] = NilSchema

\* C27: GenerateSchema never panics on a struct type: a json-tagged field
\* whose type has no schema (slice, map, unsigned integer, interface, ...)
\* gets a nil property schema, also when the field carries a description tag.
GenerateSchemaNeverPanics ==
    /\ genpc # "panicked"
    /\ \A t \in TypeNames : ReturnedStructSchema(t) => NilProperties(t)

\* the calls that return give such fields a nil property schema
NilPropertyWhenReturned ==
    \A t \in TypeNames : ReturnedStructSchema(t) => NilProperties(t)

\* Forecast's undescribed slice field has a nil property schema
NilPropertyWhenReturnedWitness ==
    /\ ReturnedStructSchema("Forecast")
    /\ callResult.properties[<<"tags">>] = NilSchema

(***************************************************************************)
(* The worker goroutine of Fetch                                           *)
(***************************************************************************)
\* the worker has ended: by return in the ctx.Done() case, or after its send
WorkerEnded == wpc \in {"aborted", "finished"}

\* C29: the worker goroutine started by Fetch never blocks forever: when it
\* takes the ctx.Done() case it returns without sending, and otherwise its
\* single send on the capacity-1 data channel finds the buffer free, also
\* when Fetch has already returned because of the cancellation.
WorkerNeverBlocksForever ==
    /\ [](wpc = "aborted" => data = <<>>)
    /\ [](cancelPhase = "early" => wpc \notin {"send", "finished"})
    /\ [](wpc = "send" => Len(data) < 1)
    /\ (wpc \in {"loop", "sleep", "send"}) ~> WorkerEnded

\* Fetch returned the cancellation error and the worker, cancelled too late
\* to notice, has left its result in the buffer
WorkerNeverBlocksForeverWitness ==
    /\ hpc = "done" /\ ferr = ErrCanceled
    /\ cancelPhase = "late"
    /\ wpc = "finished" /\ data = <<response>>

(***************************************************************************)
(* The response body of CreateChat                                         *)
(***************************************************************************)
\* the HTTP call of the current CreateChat returned a response
GotResponse == kstatus # 0

\* C30: whenever the HTTP call inside CreateChat returned a response, that
\* response's body is closed by the time CreateChat returns, on the success
\* path, the non-200 path and the decode-error path alike (and not before:
\* it is open while the status is checked and the body decoded); when the
\* call failed, or was never made, there is no body and none is closed.
BodyClosedOnReturn ==
    /\ (kpc = "returned" /\ GotResponse) => kbody = "closed"
    /\ (kpc = "returned" /\ ~GotResponse) => (kfail # "none" /\ kbody = "none")
    /\ kpc \in {"status", "decode"} => kbody = "open"
    /\ kfail # "none" => kbody = "none"

\* a second call got a 200 whose body did not decode, and closed the body
BodyClosedOnReturnWitness ==
    /\ kpc = "returned" /\ kcalls = 2
    /\ kstatus = 200 /\ kdecoded = "fail" /\ kerr # Nil
    /\ kbody = "closed"


====
